---------------------------- MODULE Spec2Model ----------------------------
(***************************************************************************)
(* Agent control loop (src/src/agent/agent.ts), its hook dispatch and the  *)
(* sliding-window conversation manager                                     *)
(* (src/src/conversation-manager/sliding-window-conversation-manager.ts).  *)
(*                                                                         *)
(* The loop is an async generator chain.  A state of the model is the      *)
(* program at a suspension point: _stream has yielded an event,            *)
(* _streamFromEntry has dispatched it to the hook registry and yielded it  *)
(* to the consumer.  pc names the event the consumer holds.  One action    *)
(* is one resumption: the code from one yield to the next.                 *)
(***************************************************************************)
EXTENDS Integers, Sequences, FiniteSets, TLC

VARIABLES
  messages,               \* Agent.messages (shared by the whole tree)
  windowSize,             \* SlidingWindowConversationManager._windowSize
  shouldTruncateResults,  \* SlidingWindowConversationManager._shouldTruncateResults
  lastReduce,             \* record of the last direct reduceContext call (SpecReduce)
  isInvoking,             \* Agent._isInvoking of the root
  initialized,            \* the agents whose _initialized is true
  activeAgentName,        \* Agent._activeAgentName of the root
  pendingTransferTarget,  \* Agent._pendingTransferTarget of the root
  consecutiveTransfers,   \* Agent._consecutiveTransfers of the root
  pc,                     \* the event the consumer of the stream holds; "idle": no call in flight
  currentArgs,            \* _stream: currentArgs
  activeAgent,            \* _stream: activeAgent
  nextAgent,              \* _stream: nextAgent, between the two transfer events
  appendIdx,              \* invokeModel: position in messagesToAppend
  tryFrames,              \* invokeModel frames suspended in their try block (agent.ts:494)
  modelResult,            \* invokeModel: { message, stopReason } of the last model call
  toolResultBlocks,       \* executeTools: toolResultBlocks
  toolResult,             \* executeTool: toolResult of the current attempt
  event,                  \* the mutable fields of the hook event last dispatched
  completion,             \* _stream: the completion pending while its finally block runs
  outcome,                \* how the last call ended, as its caller observes it
  calls,                  \* accepted invocations so far
  modelCalls,             \* model calls so far
  retries,                \* retries requested by hook callbacks so far
  nBeforeInvocation,      \* BeforeInvocationEvent dispatches of the last accepted call
  nAfterInvocation,       \* AfterInvocationEvent dispatches of the last accepted call
  inputAppends,           \* times the caller's input was appended in the last accepted call
  toolLog,                \* tool hook dispatches of the current executeTools, in order
  tree,                   \* per agent object: its messages (an array), parentAgent, subAgents
  arrays,                 \* the contents of the arrays the constructors created
  bash                    \* the bash tool: its sessions, the bash processes, its last call

vars == <<messages, windowSize, shouldTruncateResults, lastReduce, isInvoking,
          initialized, activeAgentName, pendingTransferTarget,
          consecutiveTransfers, pc, currentArgs, activeAgent, nextAgent,
          appendIdx, tryFrames, modelResult, toolResultBlocks, toolResult, event,
          completion, outcome, calls, modelCalls, retries, nBeforeInvocation,
          nAfterInvocation, inputAppends, toolLog, tree, arrays, bash>>

\* the variables of the loop and of the manager, but for outcome
varsOfLoop ==
  <<messages, windowSize, shouldTruncateResults, lastReduce, isInvoking,
    initialized, activeAgentName, pendingTransferTarget,
    consecutiveTransfers, pc, currentArgs, activeAgent, nextAgent,
    appendIdx, tryFrames, modelResult, toolResultBlocks, toolResult, event,
    completion, calls, modelCalls, retries, nBeforeInvocation,
    nAfterInvocation, inputAppends, toolLog>>

---------------------------------------------------------------------------
(* Bounds of the model *)

MaxInvocations == 2
MaxModelCalls == 2
MaxRetries == 1

MaxTransferCalls == 10
MaxTreeMessages == 2
MaxRunHistory == 2
MaxHistory == 4
MaxBashProcesses == 4
MaxBashSessions == 3
MaxWindow == 3

(* Program constants *)

MAX_CONSECUTIVE_TRANSFERS == 8
DefaultTrimIndex == 2
AgentWindowSize == 3

Undefined == "undefined"
None == "none"

---------------------------------------------------------------------------
(* Messages and content blocks (types/messages.ts, as used by the sources) *)

toolResultTooLargeMessage == "The tool result was too large!"

TextBlock(text) == [type |-> "textBlock", text |-> text]

ToolUseBlock(name, toolUseId, input) ==
  [type |-> "toolUseBlock", name |-> name, toolUseId |-> toolUseId, input |-> input]

ToolResultBlock(toolUseId, status, content, error) ==
  [type |-> "toolResultBlock", toolUseId |-> toolUseId, status |-> status,
   content |-> content, error |-> error]

Message(role, content, author) ==
  [role |-> role, content |-> content, author |-> author]

HasBlock(message, type) ==
  \E i \in 1..Len(message.content) : message.content[i].type = type

hasToolResult(message) == HasBlock(message, "toolResultBlock")

hasToolUse(message) == HasBlock(message, "toolUseBlock")

SelectBlocks(content, type) == SelectSeq(content, LAMBDA b : b.type = type)

SetMax(S) == CHOOSE x \in S : \A y \in S : y <= x

NoIndex == 0 - 1

---------------------------------------------------------------------------
(* SlidingWindowConversationManager.  Indices are the code's 0-based       *)
(* indices; element i of the array is msgs[i + 1].                         *)

\* findLastMessageWithToolResults: the index, or NoIndex for undefined
findLastMessageWithToolResults(msgs) ==
  LET S == {idx \in 0..(Len(msgs) - 1) : hasToolResult(msgs[idx + 1])}
  IN  IF S = {} THEN NoIndex ELSE SetMax(S)

\* the text the code compares with the placeholder: content[0].text or ''
contentText(block) ==
  IF Len(block.content) > 0 /\ block.content[1].type = "textBlock"
  THEN block.content[1].text ELSE ""

\* the first loop of truncateToolResults without its check for a result that
\* is already the placeholder: any tool result is one to truncate
foundToolResultToTruncate_Any(message) ==
  \E i \in 1..Len(message.content) : message.content[i].type = "toolResultBlock"

\* the first loop of truncateToolResults: only the first tool result decides
foundToolResultToTruncate(message) ==
  LET S == {i \in 1..Len(message.content) : message.content[i].type = "toolResultBlock"}
  IN  IF S = {} THEN FALSE
      ELSE LET first == message.content[CHOOSE i \in S : \A j \in S : i <= j]
           IN  ~(first.status = "error" /\ contentText(first) = toolResultTooLargeMessage)

\* the replacement keeping the status of the tool result it replaces
truncateBlock_KeepStatus(block) ==
  IF block.type = "toolResultBlock"
  THEN [type |-> "toolResultBlock", toolUseId |-> block.toolUseId, status |-> block.status,
        content |-> <<TextBlock(toolResultTooLargeMessage)>>, error |-> Undefined]
  ELSE block

\* the map of truncateToolResults over the content (lines 217-228)
truncateBlock(block) ==
  IF block.type = "toolResultBlock"
  THEN [type |-> "toolResultBlock", toolUseId |-> block.toolUseId, status |-> "error",
        content |-> <<TextBlock(toolResultTooLargeMessage)>>, error |-> Undefined]
  ELSE block

\* truncateToolResults without its check for a result that is already the
\* placeholder: [changed, messages]
truncateToolResults_NoSkip(msgs, msgIdx) ==
  IF msgIdx >= Len(msgs) \/ msgIdx < 0
  THEN [changed |-> FALSE, messages |-> msgs]
  ELSE LET message == msgs[msgIdx + 1] IN
       [changed |-> TRUE,
        messages |-> [msgs EXCEPT ![msgIdx + 1] =
           Message(message.role,
                   [i \in 1..Len(message.content) |-> truncateBlock(message.content[i])],
                   Undefined)]]

\* truncateToolResults: [changed, messages]
truncateToolResults(msgs, msgIdx) ==
  IF msgIdx >= Len(msgs) \/ msgIdx < 0
  THEN [changed |-> FALSE, messages |-> msgs]
  ELSE LET message == msgs[msgIdx + 1] IN
       IF ~foundToolResultToTruncate(message)
       THEN [changed |-> FALSE, messages |-> msgs]
       ELSE [changed |-> TRUE,
             messages |-> [msgs EXCEPT ![msgIdx + 1] =
                Message(message.role,
                        [i \in 1..Len(message.content) |-> truncateBlock(message.content[i])],
                        Undefined)]]

\* the while loop without its check of a tool use at the cut: only tool
\* results are skipped
RECURSIVE nextValidTrimIndex_NoToolUseCheck(_, _)
nextValidTrimIndex_NoToolUseCheck(msgs, trimIndex) ==
  IF trimIndex >= Len(msgs) THEN trimIndex
  ELSE IF hasToolResult(msgs[trimIndex + 1])
       THEN nextValidTrimIndex_NoToolUseCheck(msgs, trimIndex + 1)
       ELSE trimIndex

\* the while loop without its check of a tool result at the cut: only a
\* tool use without a following tool result is skipped
RECURSIVE nextValidTrimIndex_NoToolResultCheck(_, _)
nextValidTrimIndex_NoToolResultCheck(msgs, trimIndex) ==
  IF trimIndex >= Len(msgs) THEN trimIndex
  ELSE LET oldestMessage == msgs[trimIndex + 1]
           nextHasToolResult == trimIndex + 2 <= Len(msgs) /\ hasToolResult(msgs[trimIndex + 2])
       IN  IF hasToolUse(oldestMessage) /\ ~nextHasToolResult
           THEN nextValidTrimIndex_NoToolResultCheck(msgs, trimIndex + 1)
           ELSE trimIndex

\* the while loop of reduceContext: the next valid trim index from trimIndex on
RECURSIVE nextValidTrimIndex(_, _)
nextValidTrimIndex(msgs, trimIndex) ==
  IF trimIndex >= Len(msgs) THEN trimIndex
  ELSE LET oldestMessage == msgs[trimIndex + 1]
           nextHasToolResult == trimIndex + 2 <= Len(msgs) /\ hasToolResult(msgs[trimIndex + 2])
       IN  IF hasToolResult(oldestMessage) THEN nextValidTrimIndex(msgs, trimIndex + 1)
           ELSE IF hasToolUse(oldestMessage) /\ ~nextHasToolResult
                THEN nextValidTrimIndex(msgs, trimIndex + 1)
                ELSE trimIndex

ReduceOverflow == "ContextWindowOverflowError: Unable to trim conversation context!"

\* reduceContext throwing only when the trim index is past the end: a trim
\* index at the end removes every message
trimAt_AllowEmpty(msgs, trimIndex) ==
  IF trimIndex > Len(msgs)
  THEN [thrown |-> ReduceOverflow, how |-> "failed", messages |-> msgs]
  ELSE [thrown |-> None, how |-> "trimmed",
        messages |-> SubSeq(msgs, trimIndex + 1, Len(msgs))]

\* reduceContext from the valid trim index on (lines 162-168): the throw, or
\* the splice
trimAt(msgs, trimIndex) ==
  IF trimIndex >= Len(msgs)
  THEN [thrown |-> ReduceOverflow, how |-> "failed", messages |-> msgs]
  ELSE [thrown |-> None, how |-> "trimmed",
        messages |-> SubSeq(msgs, trimIndex + 1, Len(msgs))]

\* reduceContext taking the default trim index only when the history is
\* shorter than the window
reduceAfterTruncation_Shorter(msgs, ws, truncated) ==
  IF truncated.changed
  THEN [thrown |-> None, how |-> "truncated", messages |-> truncated.messages]
  ELSE trimAt(msgs, nextValidTrimIndex(msgs, IF Len(msgs) < ws THEN DefaultTrimIndex
                                                                 ELSE Len(msgs) - ws))

\* reduceContext going on to trim after a truncation instead of returning
reduceAfterTruncation_NoReturn(msgs, ws, truncated) ==
  LET r == trimAt(truncated.messages,
                  nextValidTrimIndex(truncated.messages,
                                     IF Len(msgs) <= ws THEN DefaultTrimIndex
                                                        ELSE Len(msgs) - ws))
  IN  IF truncated.changed /\ r.thrown = None
      THEN [thrown |-> None, how |-> "truncated", messages |-> r.messages]
      ELSE r

\* reduceContext after its attempt to truncate (lines 122-160); truncated is
\* what the attempt did
reduceAfterTruncation(msgs, ws, truncated) ==
  IF truncated.changed
  THEN [thrown |-> None, how |-> "truncated", messages |-> truncated.messages]
  ELSE trimAt(msgs, nextValidTrimIndex(msgs, IF Len(msgs) <= ws THEN DefaultTrimIndex
                                                                  ELSE Len(msgs) - ws))

\* reduceContext: [thrown, how, messages]
reduceContext(msgs, ws, truncate) ==
  reduceAfterTruncation(msgs, ws,
    IF findLastMessageWithToolResults(msgs) # NoIndex /\ truncate
    THEN truncateToolResults(msgs, findLastMessageWithToolResults(msgs))
    ELSE [changed |-> FALSE, messages |-> msgs])

\* applyManagement leaving a history alone that is one message over the window
applyManagement_OffByOne(msgs, ws, truncate) ==
  IF Len(msgs) <= ws + 1
  THEN [thrown |-> None, how |-> "skipped", messages |-> msgs]
  ELSE reduceContext(msgs, ws, truncate)

\* applyManagement: [thrown, how, messages]
applyManagement(msgs, ws, truncate) ==
  IF Len(msgs) <= ws
  THEN [thrown |-> None, how |-> "skipped", messages |-> msgs]
  ELSE reduceContext(msgs, ws, truncate)

---------------------------------------------------------------------------
(* The agent tree of the model: a root with two sub-agents, as in          *)
(* src/src/agent/__tests__/subagents.test.ts.                              *)

RootAgent == "root"

Agents == {"root", "math", "flashcards"}

subAgents(agent) == IF agent = RootAgent THEN <<"math", "flashcards">> ELSE <<>>

parentAgent(agent) == IF agent = RootAgent THEN Undefined ELSE RootAgent

disallowTransferToParent(agent) == FALSE

disallowTransferToPeers(agent) == agent = "flashcards"

SeqToSet(seq) == {seq[i] : i \in 1..Len(seq)}

\* Agent.findAgent on the root: the agent of that name, or Undefined
findAgent(name) == IF name \in Agents THEN name ELSE Undefined

\* Agent._getTransferTargets: the names of the targets
_getTransferTargets(agent) ==
  SeqToSet(subAgents(agent))
    \cup (IF parentAgent(agent) # Undefined /\ ~disallowTransferToParent(agent)
          THEN {parentAgent(agent)} ELSE {})
    \cup (IF parentAgent(agent) # Undefined /\ ~disallowTransferToPeers(agent)
          THEN SeqToSet(subAgents(parentAgent(agent))) \ {agent} ELSE {})

\* Agent._buildRuntimeForActiveAgent: the names in the runtime tool registry.
\* Every agent of the model registers one tool of its own, "echo".
_buildRuntimeForActiveAgent(agent) ==
  {"echo"} \cup (IF _getTransferTargets(agent) # {} THEN {"transfer_to_agent"} ELSE {})

\* _resolveInitialActiveAgent resuming the remembered agent whatever the
\* entry point
_resolveInitialActiveAgent_AlwaysResume(initialAgent, remembered) ==
  IF remembered # Undefined /\ findAgent(remembered) # Undefined
  THEN findAgent(remembered)
  ELSE initialAgent

\* Agent._resolveInitialActiveAgent
_resolveInitialActiveAgent(initialAgent, remembered) ==
  IF initialAgent # RootAgent THEN initialAgent
  ELSE IF remembered # Undefined /\ findAgent(remembered) # Undefined
       THEN findAgent(remembered)
       ELSE initialAgent

---------------------------------------------------------------------------
(* Construction of a tree.  An agent object is known by an identifier (in   *)
(* the tree of the loop, its name); its name field is what the config      *)
(* gave.  The array its constructor creates (agent.ts:178) is known by the *)
(* identifier of the agent that created it, and the messages field of an   *)
(* agent holds the identifier of the array it refers to.                   *)

\* no object of that name yet
NoAgent ==
  [built |-> FALSE, name |-> Undefined, messages |-> None, parentAgent |-> Undefined,
   subAgents |-> <<>>]

NoTree == [a \in Agents |-> NoAgent]

NoArrays == [a \in Agents |-> <<>>]

\* AgentConfig: name, messages, subAgents, parentAgent
AgentConfig(name, msgs, subs, parent) ==
  [name |-> name, messages |-> msgs, subAgents |-> subs, parentAgent |-> parent]

\* the loop of _wireAgentTree over this.subAgents, from its i-th child
\* (agent.ts:677-690): [tree, thrown]
RECURSIVE wireChildren(_, _, _)
wireChildren(tr, this, i) ==
  IF i > Len(tr[this].subAgents) THEN [tree |-> tr, thrown |-> None]
  ELSE LET child == tr[this].subAgents[i]
       IN  IF Len(tr[child].subAgents) > 0
           THEN [tree |-> tr, thrown |-> "Nested sub-agents are not supported"]
           ELSE IF tr[child].parentAgent # Undefined /\ tr[child].parentAgent # this
           THEN [tree |-> tr, thrown |-> "Agent already has parent"]
           ELSE wireChildren([tr EXCEPT ![child].parentAgent = this,
                                        ![child].messages = tr[this].messages],
                             this, i + 1)

\* the parent's subAgents with this pushed when a config.parentAgent link is
\* not there yet (agent.ts:672-674)
linkToParent(tr, this) ==
  IF tr[this].parentAgent # Undefined
     /\ this \notin SeqToSet(tr[tr[this].parentAgent].subAgents)
  THEN [tr EXCEPT ![tr[this].parentAgent].subAgents = Append(@, this)]
  ELSE tr

\* Agent._validateSiblingNames (agent.ts:702-713): two children of this
\* have the same name
_validateSiblingNames(tr, this) ==
  \E i, j \in 1..Len(tr[this].subAgents) :
    /\ i < j
    /\ tr[tr[this].subAgents[i]].name # Undefined
    /\ tr[tr[this].subAgents[i]].name = tr[tr[this].subAgents[j]].name

\* the checks of _assertNamePresent in _wireAgentTree (agent.ts:693-698,
\* 715-719): this takes part in a tree and it or a child of it has no name
_assertNamePresent(tr, this) ==
  /\ Len(tr[this].subAgents) > 0 \/ tr[this].parentAgent # Undefined
  /\ \/ tr[this].name = Undefined
     \/ \E i \in 1..Len(tr[this].subAgents) : tr[tr[this].subAgents[i]].name = Undefined

\* the end of _wireAgentTree, after the loop over the children
\* (agent.ts:692-699): [tree, thrown]
validateNames(w, this) ==
  IF w.thrown # None THEN w
  ELSE IF _validateSiblingNames(w.tree, this)
       THEN [tree |-> w.tree, thrown |-> "Duplicate sub-agent name"]
       ELSE IF _assertNamePresent(w.tree, this)
            THEN [tree |-> w.tree, thrown |-> "Agent name is required"]
            ELSE w

\* Agent._wireAgentTree (agent.ts:666-700): [tree, thrown]
_wireAgentTree(tr, this) ==
  IF tr[this].parentAgent # Undefined /\ Len(tr[this].subAgents) > 0
  THEN [tree |-> tr, thrown |-> "Nested sub-agents are not supported"]
  ELSE validateNames(wireChildren(linkToParent(tr, this), this, 1), this)

\* the constructor has returned: the caller holds the object
constructed(w, this) ==
  IF w.thrown # None THEN w ELSE [w EXCEPT !.tree[this].built = TRUE]

\* new Agent(config) (agent.ts:177-212): [tree, thrown]
constructor(tr, this, config) ==
  constructed(
    _wireAgentTree([tr EXCEPT ![this] = [built |-> FALSE, name |-> config.name,
                                         messages |-> this,
                                         parentAgent |-> config.parentAgent,
                                         subAgents |-> config.subAgents]],
                   this),
    this)

\* getRootAgent (agent.ts:861-867)
RECURSIVE getRootAgent(_, _)
getRootAgent(tr, agent) ==
  IF tr[agent].parentAgent = Undefined THEN agent
  ELSE getRootAgent(tr, tr[agent].parentAgent)

\* the tree of the agent specifications, built as in subagents.test.ts:
\* the sub-agents, then the root with subAgents: [math, flashcards]
TestTree ==
  constructor(
    constructor(
      constructor(NoTree, "math", AgentConfig("math", <<>>, <<>>, Undefined)).tree,
      "flashcards", AgentConfig("flashcards", <<>>, <<>>, Undefined)).tree,
    RootAgent, AgentConfig("root", <<>>, <<"math", "flashcards">>, Undefined)).tree

---------------------------------------------------------------------------
(* The bash tool (src/src/vended-tools/bash/bash.ts).  A BashSession       *)
(* object is known by its position in objects, a bash process by its       *)
(* position in processes; the shell state of a process is the value of one *)
(* shell variable, X.                                                      *)

NoProcess == 0

NoSession == 0

\* the agents whose tool context the bash tool is called with
BashAgents == {"root", "math"}

\* the commands of the model: one sets the shell variable, one reads it
BashCommands == {"X=1", "echo $X"}

\* how a run ends: the sentinel is read, or the timeout fires first
BashEnds == {"done", "timeout"}

NoBashCall ==
  [agent |-> None, mode |-> None, command |-> None, ended |-> None, process |-> NoProcess,
   output |-> None]

\* no call of the tool yet: the WeakMap and the set are empty.  ran is the
\* process the last execute call of an agent ran in, since the last restart
\* call of that agent
NoBash ==
  [sessions |-> [a \in BashAgents |-> NoSession], objects |-> <<>>, activeSessions |-> {},
   processes |-> <<>>, ran |-> [a \in BashAgents |-> NoProcess], last |-> NoBashCall]

\* new BashSession(timeout) (bash.ts:25-34): the bash state with the new
\* object last in objects
BashSession(b) == [b EXCEPT !.objects = Append(@, [process |-> NoProcess, started |-> FALSE])]

\* BashSession.start (bash.ts:39-64): spawn unless started
start(b, session) ==
  IF b.objects[session].started THEN b
  ELSE [b EXCEPT !.processes = Append(@, [alive |-> TRUE, X |-> ""]),
                 !.objects[session] = [process |-> Len(b.processes) + 1, started |-> TRUE]]

\* BashSession.stop (bash.ts:69-75): kill the process
stop(b, session) ==
  IF b.objects[session].process # NoProcess
  THEN [b EXCEPT !.processes[b.objects[session].process].alive = FALSE,
                 !.objects[session] = [process |-> NoProcess, started |-> FALSE]]
  ELSE b

\* the cleanup function of BashSession.run (bash.ts:136-153)
cleanup(b, session) ==
  [stop(b, session) EXCEPT !.activeSessions = @ \ {session}]

\* the bash process reads the command from its stdin and runs it
shell(b, process, command) ==
  IF command = "X=1" THEN [b EXCEPT !.processes[process].X = "1"] ELSE b

\* what the command writes to stdout before the sentinel
stdout(b, process, command) ==
  IF command = "echo $X" THEN b.processes[process].X ELSE ""

\* BashSession.run (bash.ts:80-182) from the start of the process to the
\* settling of its promise; a command that times out has not run
run(b, agent, session, command, ended) ==
  LET started == start(b, session)
      process == started.objects[session].process
      written == IF ended = "done" THEN shell(started, process, command) ELSE started
  IN  [cleanup(written, session) EXCEPT
         !.ran[agent] = process,
         !.last = [agent |-> agent, mode |-> "execute", command |-> command, ended |-> ended,
                   process |-> process,
                   output |-> IF ended = "done" THEN stdout(written, process, command)
                              ELSE "BashTimeoutError"]]

\* the session of the agent, created if the WeakMap has none (bash.ts:286-291)
getOrCreateSession(b, agent) ==
  IF b.sessions[agent] # NoSession THEN b
  ELSE [BashSession(b) EXCEPT !.sessions[agent] = Len(b.objects) + 1,
                              !.activeSessions = @ \cup {Len(b.objects) + 1}]

\* the callback of the tool in execute mode (bash.ts:264-267, 284-295)
execute(b, agent, command, ended) ==
  IF command = Undefined
  THEN [b EXCEPT !.last = [agent |-> agent, mode |-> "execute", command |-> command,
                           ended |-> "thrown", process |-> NoProcess,
                           output |-> "Error: command is required"]]
  ELSE run(getOrCreateSession(b, agent), agent,
           getOrCreateSession(b, agent).sessions[agent], command, ended)

\* the existing session of the agent stopped and forgotten (bash.ts:271-276)
dropSession(b, agent) ==
  IF b.sessions[agent] # NoSession
  THEN [stop(b, b.sessions[agent]) EXCEPT !.activeSessions = @ \ {b.sessions[agent]},
                                          !.sessions[agent] = NoSession]
  ELSE b

\* the callback of the tool in restart mode (bash.ts:270-282)
restart(b, agent) ==
  [getOrCreateSession(dropSession(b, agent), agent) EXCEPT
     !.ran[agent] = NoProcess,
     !.last = [agent |-> agent, mode |-> "restart", command |-> None, ended |-> "done",
               process |-> NoProcess, output |-> "Bash session restarted"]]

---------------------------------------------------------------------------
(* Inputs of the model: what callers pass, what the model provider and the *)
(* tools answer, what the callbacks of a user hook provider do.            *)

\* InvokeArgs: a string, an array of two messages (an empty array is
\* normalized like the undefined of the later loop iterations)
InvokeArgs == {"hello", "twoMessages"}

\* the agents of the tree that callers invoke
EntryAgents == {"root", "math"}

\* Agent._normalizeInput: the messages to append
_normalizeInput(args) ==
  IF args = Undefined \/ args = "emptyArray" THEN <<>>
  ELSE IF args = "hello"
       THEN <<Message("user", <<TextBlock("hello")>>, Undefined)>>
       ELSE <<Message("user", <<TextBlock("first")>>, Undefined),
              Message("user", <<TextBlock("second")>>, Undefined)>>

ModelOverflow == "ContextWindowOverflowError"

ModelErrors == {"ModelError", ModelOverflow}

IsContextWindowOverflowError(error) == error \in {ModelOverflow, ReduceOverflow}

\* what Model.streamAggregated returns: { message, stopReason }
ModelResults ==
  {[message |-> Message("assistant", <<TextBlock("answer")>>, Undefined), stopReason |-> "endTurn"],
   [message |-> Message("assistant", <<TextBlock("no tool")>>, Undefined), stopReason |-> "toolUse"],
   [message |-> Message("assistant", <<TextBlock("let me see"),
                                       ToolUseBlock("ghost_tool", "t1", "{}"),
                                       ToolUseBlock("echo", "t2", "{}")>>, Undefined),
    stopReason |-> "toolUse"]}
  \cup {[message |-> Message("assistant", <<ToolUseBlock("transfer_to_agent", "t1", target)>>,
                             Undefined),
         stopReason |-> "toolUse"] : target \in {"math"}}
  \cup {[message |-> Message("assistant", <<ToolUseBlock("transfer_to_agent", "t1", "math"),
                                            ToolUseBlock("echo", "t2", "{}")>>, Undefined),
         stopReason |-> "toolUse"]}

\* how a registered tool's stream ends
ToolOutcomes == {"result", "throws", "noResult"}

\* what the callbacks of the user hook provider do with an event
HookOutcomes == {"pass", "throw", "retry"}

---------------------------------------------------------------------------
(* The state as a record, so that the code between two yields composes.    *)
(* thrown is the exception in flight inside one resumption.                *)

cur ==
  [messages |-> messages, windowSize |-> windowSize,
   shouldTruncateResults |-> shouldTruncateResults, lastReduce |-> lastReduce,
   isInvoking |-> isInvoking, initialized |-> initialized,
   activeAgentName |-> activeAgentName,
   pendingTransferTarget |-> pendingTransferTarget,
   consecutiveTransfers |-> consecutiveTransfers, pc |-> pc,
   currentArgs |-> currentArgs, activeAgent |-> activeAgent, nextAgent |-> nextAgent,
   appendIdx |-> appendIdx, tryFrames |-> tryFrames, modelResult |-> modelResult,
   toolResultBlocks |-> toolResultBlocks, toolResult |-> toolResult, event |-> event,
   completion |-> completion, outcome |-> outcome, calls |-> calls,
   modelCalls |-> modelCalls, retries |-> retries,
   nBeforeInvocation |-> nBeforeInvocation, nAfterInvocation |-> nAfterInvocation,
   inputAppends |-> inputAppends, toolLog |-> toolLog, thrown |-> None]

Apply(s) ==
  /\ messages' = s.messages
  /\ windowSize' = s.windowSize
  /\ shouldTruncateResults' = s.shouldTruncateResults
  /\ lastReduce' = s.lastReduce
  /\ isInvoking' = s.isInvoking
  /\ initialized' = s.initialized
  /\ activeAgentName' = s.activeAgentName
  /\ pendingTransferTarget' = s.pendingTransferTarget
  /\ consecutiveTransfers' = s.consecutiveTransfers
  /\ pc' = s.pc
  /\ currentArgs' = s.currentArgs
  /\ activeAgent' = s.activeAgent
  /\ nextAgent' = s.nextAgent
  /\ appendIdx' = s.appendIdx
  /\ tryFrames' = s.tryFrames
  /\ modelResult' = s.modelResult
  /\ toolResultBlocks' = s.toolResultBlocks
  /\ toolResult' = s.toolResult
  /\ event' = s.event
  /\ completion' = s.completion
  /\ outcome' = s.outcome
  /\ calls' = s.calls
  /\ modelCalls' = s.modelCalls
  /\ retries' = s.retries
  /\ nBeforeInvocation' = s.nBeforeInvocation
  /\ nAfterInvocation' = s.nAfterInvocation
  /\ inputAppends' = s.inputAppends
  /\ toolLog' = s.toolLog
  /\ UNCHANGED <<tree, arrays, bash>>

NoEvent ==
  [type |-> None, agent |-> None, registry |-> None, error |-> Undefined, retry |-> FALSE,
   retryModelCall |-> FALSE]

NoReduce == [by |-> None, input |-> <<>>, how |-> None, thrown |-> None]

NoModelResult == [message |-> Message(None, <<>>, Undefined), stopReason |-> None]

NoToolResult == ToolResultBlock(None, None, <<>>, Undefined)

NoCompletion == [kind |-> None, error |-> None]

MaxTokensError == "MaxTokensError"

\* what the provider's stream adds up to when the model runs out of tokens
\* mid-generation: the cut-off message and the stop reason maxTokens
CutOffResult ==
  [message |-> Message("assistant", <<TextBlock("cut off")>>, Undefined),
   stopReason |-> "maxTokens"]

\* Model.streamAggregated handing out what the stream added up to, whatever
\* the stop reason
streamAggregated_NoMaxTokensCheck(result) == [thrown |-> None, result |-> result]

\* the end of Model.streamAggregated (models/__tests__/model.test.ts:53-74):
\* a stream that stops with maxTokens makes it throw: [thrown, result]
streamAggregated(result) ==
  IF result.stopReason = "maxTokens"
  THEN [thrown |-> MaxTokensError, result |-> NoModelResult]
  ELSE [thrown |-> None, result |-> result]

\* a hook event as constructed by the loop, `new ...Event({ agent: this })`
\* with the root as this: no registry has dispatched it and no callback has
\* written its flags yet
HookEvent(type, error) ==
  [type |-> type, agent |-> RootAgent, registry |-> None, error |-> error, retry |-> FALSE,
   retryModelCall |-> FALSE]

---------------------------------------------------------------------------
(* Lock *)

\* acquireLock without its check of _isInvoking
acquireLock_NoCheck(s) == [s EXCEPT !.isInvoking = TRUE]

\* Agent.acquireLock
acquireLock(s) ==
  IF s.isInvoking
  THEN [s EXCEPT !.thrown = "ConcurrentInvocationError"]
  ELSE [s EXCEPT !.isInvoking = TRUE]

\* the [Symbol.dispose] of the lock
dispose(s) == [s EXCEPT !.isInvoking = FALSE]

\* _streamFromEntry with the lock released at the end of its body instead of
\* by `using`: a return() by the consumer leaves it held
exitEntry_LeakOnReturn(s, how) ==
  LET ended == [s EXCEPT !.pc = "idle", !.outcome = how, !.thrown = None,
                         !.currentArgs = Undefined, !.activeAgent = Undefined,
                         !.nextAgent = Undefined, !.appendIdx = 0, !.tryFrames = 0,
                         !.modelResult = NoModelResult, !.toolResultBlocks = <<>>,
                         !.toolResult = NoToolResult, !.event = NoEvent,
                         !.completion = NoCompletion, !.toolLog = <<>>]
  IN  IF how = "EarlyReturn" THEN ended ELSE dispose(ended)

\* _streamFromEntry ends (return, throw, or return() by the consumer): its
\* `using _lock` is disposed; the locals of the abandoned generators are gone
exitEntry(s, how) ==
  dispose([s EXCEPT !.pc = "idle", !.outcome = how, !.thrown = None,
                    !.currentArgs = Undefined, !.activeAgent = Undefined,
                    !.nextAgent = Undefined, !.appendIdx = 0, !.tryFrames = 0,
                    !.modelResult = NoModelResult, !.toolResultBlocks = <<>>,
                    !.toolResult = NoToolResult, !.event = NoEvent,
                    !.completion = NoCompletion, !.toolLog = <<>>])

---------------------------------------------------------------------------
(* Hook dispatch.  The registry holds the conversation manager's callbacks *)
(* first (agent.ts:183), then those of the configured hook providers       *)
(* (agent.ts:184): here one provider whose callbacks do what h says.       *)

\* the AfterInvocationEvent callback (lines 68-70); r is what applyManagement did
managedAfterInvocation(s, r) == [s EXCEPT !.messages = r.messages, !.thrown = r.thrown]

\* the AfterModelCallEvent callback on an overflow error (lines 74-77); r is
\* what reduceContext did
reducedOnOverflow(s, r) ==
  IF r.thrown # None
  THEN [s EXCEPT !.thrown = r.thrown]
  ELSE [s EXCEPT !.messages = r.messages, !.event.retryModelCall = TRUE]

\* SlidingWindowConversationManager.registerCallbacks: its two callbacks
managerCallbacks(s) ==
  IF s.event.type = "afterInvocationEvent"
  THEN managedAfterInvocation(s, applyManagement(s.messages, s.windowSize,
                                                 s.shouldTruncateResults))
  ELSE IF s.event.type = "afterModelCallEvent" /\ IsContextWindowOverflowError(s.event.error)
       THEN reducedOnOverflow(s, reduceContext(s.messages, s.windowSize,
                                               s.shouldTruncateResults))
       ELSE s

\* the callbacks of the user hook provider
\* (a retry is a write to the retry field of the two events that have one)
userCallbacks(s, h) ==
  IF h = "throw" THEN [s EXCEPT !.thrown = "HookError"]
  ELSE IF h = "retry" /\ s.event.type \in {"afterModelCallEvent", "afterToolCallEvent"}
       THEN [s EXCEPT !.event.retry = TRUE, !.retries = @ + 1]
       ELSE s

\* HookRegistryImplementation.invokeCallbacks: in registration order, a throw
\* ends the dispatch
nextCallbacks(managed, h) ==
  IF managed.thrown # None THEN managed ELSE userCallbacks(managed, h)

\* invokeCallbacks running the callbacks of the user hook provider before
\* those of the conversation manager
invokeCallbacks_UserFirst(s, ev, h) ==
  LET dispatched ==
        [s EXCEPT !.event = [ev EXCEPT !.registry = RootAgent],
           !.nBeforeInvocation = @ + (IF ev.type = "beforeInvocationEvent" THEN 1 ELSE 0),
           !.nAfterInvocation = @ + (IF ev.type = "afterInvocationEvent" THEN 1 ELSE 0)]
  IN  IF userCallbacks(dispatched, h).thrown # None
      THEN userCallbacks(dispatched, h)
      ELSE managerCallbacks(userCallbacks(dispatched, h))

\* invokeCallbacks called on the registry of the active agent, with the
\* active agent as the agent of the event
invokeCallbacks_OfActiveAgent(s, ev, h) ==
  nextCallbacks(
    managerCallbacks(
      [s EXCEPT !.event = [ev EXCEPT !.registry = s.activeAgent, !.agent = s.activeAgent],
         !.nBeforeInvocation = @ + (IF ev.type = "beforeInvocationEvent" THEN 1 ELSE 0),
         !.nAfterInvocation = @ + (IF ev.type = "afterInvocationEvent" THEN 1 ELSE 0)]),
    h)

\* `this.hooks.invokeCallbacks(event)` in _streamFromEntry (agent.ts:335) and
\* in _appendMessage (agent.ts:662): this is the root, whose registry holds
\* the root's conversation manager and the root's hook provider
invokeCallbacks(s, ev, h) ==
  nextCallbacks(
    managerCallbacks(
      [s EXCEPT !.event = [ev EXCEPT !.registry = RootAgent],
         !.nBeforeInvocation = @ + (IF ev.type = "beforeInvocationEvent" THEN 1 ELSE 0),
         !.nAfterInvocation = @ + (IF ev.type = "afterInvocationEvent" THEN 1 ELSE 0)]),
    h)

\* _streamFromEntry, loop body: a hook event yielded by _stream is dispatched,
\* then handed to the consumer; a throwing callback ends _streamFromEntry
yieldEvent(d, at) ==
  IF d.thrown # None THEN exitEntry(d, d.thrown) ELSE [d EXCEPT !.pc = at]

forward(s, ev, h, at) == yieldEvent(invokeCallbacks(s, ev, h), at)

\* the finally block of _stream: AfterInvocationEvent is yielded while the
\* completion (a return or a throw) is pending
finallyBlock(s, compl, hf) ==
  forward([s EXCEPT !.completion = compl, !.thrown = None],
          HookEvent("afterInvocationEvent", Undefined), hf, "afterInvocationEvent")

Throw(error) == [kind |-> "throw", error |-> error]

Return == [kind |-> "return", error |-> None]

\* Agent._appendMessage: push, then the MessageAddedEvent callbacks
_appendMessage(s, message, author, h) ==
  LET messageToAppend ==
        IF author # Undefined /\ message.author = Undefined
        THEN Message(message.role, message.content, author)
        ELSE message
      pushed == [s EXCEPT !.messages = Append(@, messageToAppend)]
  IN  invokeCallbacks(pushed, HookEvent("messageAddedEvent", Undefined), h)

\* `yield await this._appendMessage(...)` inside the try block of _stream
yieldAppended(a, hf, at) ==
  IF a.thrown # None THEN finallyBlock(a, Throw(a.thrown), hf)
  ELSE [a EXCEPT !.pc = at]

appendAndYield(s, message, author, h, hf, at) ==
  yieldAppended(_appendMessage(s, message, author, h), hf, at)

---------------------------------------------------------------------------
(* The code of _stream, invokeModel, executeTools and executeTool between  *)
(* two yields.  h is what the user callbacks do with the event dispatched  *)
(* at the next yield; hf is what they do with the event dispatched when    *)
(* the code throws before that yield: the AfterInvocationEvent of the      *)
(* finally block, or the AfterModelCallEvent of an enclosing invokeModel.  *)

\* an error thrown inside invokeModel: the nearest frame that is suspended
\* in its try block (it retried after a successful call, agent.ts:493-495)
\* catches it and yields an AfterModelCallEvent with it (agent.ts:498-502);
\* without such a frame it reaches the finally block of _stream
throwInInvokeModel(s, error, hf) ==
  IF s.tryFrames > 0
  THEN forward([s EXCEPT !.tryFrames = @ - 1, !.modelResult = NoModelResult,
                         !.thrown = None],
               HookEvent("afterModelCallEvent", error), hf, "afterModelCallEvent")
  ELSE finallyBlock(s, Throw(error), hf)

\* `yield await this._appendMessage(message)` in the loop of invokeModel
\* (agent.ts:475-477)
yieldInput(a, hf) ==
  IF a.thrown # None THEN throwInInvokeModel(a, a.thrown, hf)
  ELSE [a EXCEPT !.pc = "messageAddedEvent.input"]

\* invokeModel from its top to its first yield (agent.ts:474-485)
invokeModel(s, h, hf) ==
  IF Len(_normalizeInput(s.currentArgs)) > 0
  THEN yieldInput(_appendMessage([s EXCEPT !.appendIdx = 1, !.inputAppends = @ + 1],
                                 _normalizeInput(s.currentArgs)[1], Undefined, h), hf)
  ELSE forward(s, HookEvent("beforeModelCallEvent", Undefined), h, "beforeModelCallEvent")

\* the top of the while loop of _stream (agent.ts:362-365): the active agent
\* is initialized (initOk: its initialize() does not throw), then invokeModel
loopTop(s, initOk, h, hf) ==
  IF s.activeAgent \notin s.initialized /\ ~initOk
  THEN finallyBlock(s, Throw("InitError"), hf)
  ELSE invokeModel([s EXCEPT !.initialized = @ \cup {s.activeAgent}], h, hf)

toolUseBlocksOf(message) == SelectBlocks(message.content, "toolUseBlock")

\* executeTool from its top, or from `continue`, to the yield of BeforeToolCallEvent
executeToolTop(s, h) ==
  forward([s EXCEPT !.toolLog = Append(@, <<"before", Len(s.toolResultBlocks) + 1>>)],
          HookEvent("beforeToolCallEvent", Undefined), h, "beforeToolCallEvent")

\* the transfer tool with a queueTransfer that has no guard on the counter
transferToAgent_NoGuard(s, agentName) ==
  IF agentName \notin _getTransferTargets(s.activeAgent)
  THEN [thrown |-> "not a valid transfer target", pending |-> s.pendingTransferTarget]
  ELSE [thrown |-> None, pending |-> agentName]

\* the transfer tool with a queueTransfer whose guard lets a target through
\* when the counter is at the maximum and refuses only above it
transferToAgent_GuardAbove(s, agentName) ==
  IF agentName \notin _getTransferTargets(s.activeAgent)
  THEN [thrown |-> "not a valid transfer target", pending |-> s.pendingTransferTarget]
  ELSE IF s.consecutiveTransfers > MAX_CONSECUTIVE_TRANSFERS
       THEN [thrown |-> "Transfer guard triggered", pending |-> s.pendingTransferTarget]
       ELSE [thrown |-> None, pending |-> agentName]

\* the callback of the transfer tool (transfer-to-agent-tool.ts:23-35) with
\* queueTransfer (agent.ts:746-753): [thrown, pending]
transferToAgent(s, agentName) ==
  IF agentName \notin _getTransferTargets(s.activeAgent)
  THEN [thrown |-> "not a valid transfer target", pending |-> s.pendingTransferTarget]
  ELSE IF s.consecutiveTransfers >= MAX_CONSECUTIVE_TRANSFERS
       THEN [thrown |-> "Transfer guard triggered", pending |-> s.pendingTransferTarget]
       ELSE [thrown |-> None, pending |-> agentName]

\* executeTool without its try/catch around the tool's stream: the error of
\* a tool that throws is in flight when AfterToolCallEvent would be yielded
runTool_Rethrow(s, o) ==
  LET toolUseBlock == SelectBlocks(s.modelResult.message.content,
                                   "toolUseBlock")[Len(s.toolResultBlocks) + 1]
      id == toolUseBlock.toolUseId
      found == toolUseBlock.name \in _buildRuntimeForActiveAgent(s.activeAgent)
      t == transferToAgent(s, toolUseBlock.input)
  IN  IF ~found
      THEN [s EXCEPT !.toolResult =
              ToolResultBlock(id, "error", <<TextBlock("not found in registry")>>, Undefined)]
      ELSE IF toolUseBlock.name = "transfer_to_agent"
      THEN IF t.thrown # None
           THEN [s EXCEPT !.thrown = t.thrown]
           ELSE [s EXCEPT !.pendingTransferTarget = t.pending,
                          !.toolResult =
                   ToolResultBlock(id, "success", <<TextBlock("transfer_to_agent")>>, Undefined)]
      ELSE IF o = "noResult"
      THEN [s EXCEPT !.toolResult =
              ToolResultBlock(id, "error", <<TextBlock("did not return a result")>>, Undefined)]
      ELSE IF o = "throws"
      THEN [s EXCEPT !.thrown = "tool failed"]
      ELSE [s EXCEPT !.toolResult =
              ToolResultBlock(id, "success", <<TextBlock("echo-ok")>>, Undefined)]

\* executeTool with a transfer tool that switches the active agent at once
\* instead of queueing the target
runTool_SwitchAtOnce(s, o) ==
  LET toolUseBlock == toolUseBlocksOf(s.modelResult.message)[Len(s.toolResultBlocks) + 1]
      id == toolUseBlock.toolUseId
      found == toolUseBlock.name \in _buildRuntimeForActiveAgent(s.activeAgent)
      t == transferToAgent(s, toolUseBlock.input)
  IN  IF ~found
      THEN [s EXCEPT !.toolResult =
              ToolResultBlock(id, "error", <<TextBlock("not found in registry")>>, Undefined)]
      ELSE IF toolUseBlock.name = "transfer_to_agent"
      THEN IF t.thrown # None
           THEN [s EXCEPT !.toolResult =
                   ToolResultBlock(id, "error", <<TextBlock(t.thrown)>>, t.thrown)]
           ELSE [s EXCEPT !.activeAgent = t.pending, !.activeAgentName = t.pending,
                          !.toolResult =
                   ToolResultBlock(id, "success", <<TextBlock("transfer_to_agent")>>, Undefined)]
      ELSE IF o = "noResult"
      THEN [s EXCEPT !.toolResult =
              ToolResultBlock(id, "error", <<TextBlock("did not return a result")>>, Undefined)]
      ELSE IF o = "throws"
      THEN [s EXCEPT !.toolResult =
              ToolResultBlock(id, "error", <<TextBlock("tool failed")>>, "tool failed")]
      ELSE [s EXCEPT !.toolResult =
              ToolResultBlock(id, "success", <<TextBlock("echo-ok")>>, Undefined)]

\* the body of the while loop of executeTool between BeforeToolCallEvent and
\* AfterToolCallEvent (agent.ts:590-631): the state with toolResult set.
\* o is how the stream of a registered tool ends.
runTool(s, o) ==
  LET toolUseBlock == toolUseBlocksOf(s.modelResult.message)[Len(s.toolResultBlocks) + 1]
      id == toolUseBlock.toolUseId
      found == toolUseBlock.name \in _buildRuntimeForActiveAgent(s.activeAgent)
      t == transferToAgent(s, toolUseBlock.input)
  IN  IF ~found
      THEN [s EXCEPT !.toolResult =
              ToolResultBlock(id, "error", <<TextBlock("not found in registry")>>, Undefined)]
      ELSE IF toolUseBlock.name = "transfer_to_agent"
      THEN IF t.thrown # None
           THEN [s EXCEPT !.toolResult =
                   ToolResultBlock(id, "error", <<TextBlock(t.thrown)>>, t.thrown)]
           ELSE [s EXCEPT !.pendingTransferTarget = t.pending,
                          !.toolResult =
                   ToolResultBlock(id, "success", <<TextBlock("transfer_to_agent")>>, Undefined)]
      ELSE IF o = "noResult"
      THEN [s EXCEPT !.toolResult =
              ToolResultBlock(id, "error", <<TextBlock("did not return a result")>>, Undefined)]
      ELSE IF o = "throws"
      THEN [s EXCEPT !.toolResult =
              ToolResultBlock(id, "error", <<TextBlock("tool failed")>>, "tool failed")]
      ELSE [s EXCEPT !.toolResult =
              ToolResultBlock(id, "success", <<TextBlock("echo-ok")>>, Undefined)]

\* the hook outcomes that can be chosen at a dispatch: a retry only where the
\* loop reads the flag, and within the bound
Hooks(s, retryable) ==
  {"pass", "throw"} \cup (IF retryable /\ s.retries < MaxRetries THEN {"retry"} ELSE {})

---------------------------------------------------------------------------
(* Actions: one per resumption of the generator chain.                     *)

\* _streamFromEntry disposing of the lock when acquireLock throws, as if the
\* `using` binding had been made
_streamFromEntry_ReleaseOnReject(s, initialAgent, args, initOk, h) ==
  LET locked == acquireLock(s)
      fresh == [locked EXCEPT !.outcome = None, !.calls = @ + 1,
                  !.nBeforeInvocation = 0, !.nAfterInvocation = 0, !.inputAppends = 0]
      started == [fresh EXCEPT !.initialized = @ \cup {RootAgent},
                    !.currentArgs = args,
                    !.activeAgent = _resolveInitialActiveAgent(initialAgent, s.activeAgentName)]
  IN  IF locked.thrown # None
      THEN [dispose(s) EXCEPT !.outcome = locked.thrown]
      ELSE IF RootAgent \notin s.initialized /\ ~initOk
           THEN exitEntry(fresh, "InitError")
           ELSE forward(started, HookEvent("beforeInvocationEvent", Undefined), h,
                        "beforeInvocationEvent")

\* _streamFromEntry from its top to the first event handed to the consumer
\* (agent.ts:324-339 with _stream, agent.ts:355-358).  A call rejected by
\* acquireLock ends at once with the error and changes nothing else.
_streamFromEntry(s, initialAgent, args, initOk, h) ==
  LET locked == acquireLock(s)
      fresh == [locked EXCEPT !.outcome = None, !.calls = @ + 1,
                  !.nBeforeInvocation = 0, !.nAfterInvocation = 0, !.inputAppends = 0]
      started == [fresh EXCEPT !.initialized = @ \cup {RootAgent},
                    !.currentArgs = args,
                    !.activeAgent = _resolveInitialActiveAgent(initialAgent, s.activeAgentName)]
  IN  IF locked.thrown # None
      THEN [s EXCEPT !.outcome = locked.thrown]
      ELSE IF RootAgent \notin s.initialized /\ ~initOk
           THEN exitEntry(fresh, "InitError")
           ELSE forward(started, HookEvent("beforeInvocationEvent", Undefined), h,
                        "beforeInvocationEvent")

\* Agent.stream taking the lock of the agent it is called on: a sub-agent's
\* own lock is free whatever the root is doing
stream_OwnLock(agent, args) ==
  {_streamFromEntry(IF agent = RootAgent THEN cur ELSE [cur EXCEPT !.isInvoking = FALSE],
                    agent, args, initOk, h) :
     initOk \in BOOLEAN, h \in Hooks(cur, FALSE)}

\* Agent.stream / Agent.invoke on any agent of the tree: the root's
\* _streamFromEntry runs with that agent as the entry point; the states its
\* first resumption can end in
stream(agent, args) ==
  {_streamFromEntry(cur, agent, args, initOk, h) :
     initOk \in BOOLEAN, h \in Hooks(cur, FALSE)}

\* the consumer calls return() on the stream while it holds an event
EarlyReturn ==
  /\ pc # "idle"
  /\ Apply(exitEntry(cur, "EarlyReturn"))

\* _stream resumed after BeforeInvocationEvent: the first loop iteration
FirstIteration ==
  /\ pc = "beforeInvocationEvent"
  /\ \E r \in {loopTop(cur, initOk, h, hf) :
                   initOk \in BOOLEAN, h \in Hooks(cur, FALSE), hf \in Hooks(cur, FALSE)} :
       Apply(r)

\* invokeModel resumed after the MessageAddedEvent of an input message: the
\* next input message, or BeforeModelCallEvent (agent.ts:476-485)
appendInput(s, h, hf) ==
  IF s.appendIdx < Len(_normalizeInput(s.currentArgs))
  THEN yieldInput(_appendMessage([s EXCEPT !.appendIdx = @ + 1],
                                 _normalizeInput(s.currentArgs)[s.appendIdx + 1],
                                 Undefined, h), hf)
  ELSE forward(s, HookEvent("beforeModelCallEvent", Undefined), h, "beforeModelCallEvent")

AppendInput ==
  /\ pc = "messageAddedEvent.input"
  /\ \E r \in {appendInput(cur, h, hf) : h \in Hooks(cur, FALSE), hf \in Hooks(cur, TRUE)} :
       Apply(r)

\* _streamFromModel returns a result: AfterModelCallEvent carries stopData
ModelAnswers ==
  /\ pc = "beforeModelCallEvent"
  /\ modelCalls < MaxModelCalls
  /\ \E result \in ModelResults, h \in Hooks(cur, TRUE) :
       Apply(forward([cur EXCEPT !.modelCalls = @ + 1, !.modelResult = result],
                     HookEvent("afterModelCallEvent", Undefined), h, "afterModelCallEvent"))

\* _streamFromModel throws: AfterModelCallEvent carries the error
ModelThrows ==
  /\ pc = "beforeModelCallEvent"
  /\ modelCalls < MaxModelCalls
  /\ \E error \in ModelErrors, h \in Hooks(cur, TRUE) :
       Apply(forward([cur EXCEPT !.modelCalls = @ + 1, !.modelResult = NoModelResult],
                     HookEvent("afterModelCallEvent", error), h, "afterModelCallEvent"))

\* invokeModel from the end of _streamFromModel to the yield of its
\* AfterModelCallEvent (agent.ts:487-499); a is what streamAggregated did
afterStream(s, a, h) ==
  forward([s EXCEPT !.modelCalls = @ + 1, !.modelResult = a.result],
          HookEvent("afterModelCallEvent", IF a.thrown # None THEN a.thrown ELSE Undefined),
          h, "afterModelCallEvent")

\* the model stops with stop reason maxTokens
ModelStopsAtMaxTokens ==
  /\ pc = "beforeModelCallEvent"
  /\ modelCalls < MaxModelCalls
  /\ \E h \in Hooks(cur, TRUE) : Apply(afterStream(cur, streamAggregated(CutOffResult), h))

\* invokeModel retrying every failed model call, flag or no flag
afterModelCall_RetryOnError(s, h, hf) ==
  IF s.event.retry \/ s.event.error # Undefined
  THEN invokeModel([s EXCEPT !.tryFrames = @ + (IF s.event.error = Undefined THEN 1 ELSE 0)],
                   h, hf)
  ELSE LET r == [s EXCEPT !.currentArgs = Undefined, !.tryFrames = 0]
       IN  IF s.modelResult.stopReason # "toolUse"
           THEN appendAndYield(r, s.modelResult.message, s.activeAgent, h, hf,
                               "messageAddedEvent.final")
           ELSE forward([r EXCEPT !.toolResultBlocks = <<>>, !.toolLog = <<>>],
                        HookEvent("beforeToolsEvent", Undefined), h, "beforeToolsEvent")

\* invokeModel resumed after AfterModelCallEvent (agent.ts:493-508): a retry
\* calls invokeModel again with the same args, from inside the try block
\* after a successful call and from the catch block after a failed one; a
\* failed call without a retry rethrows; a result is returned through every
\* frame to _stream, which goes on to its next yield (agent.ts:366-377,
\* executeTools 542)
afterModelCall(s, h, hf) ==
  IF s.event.retry
  THEN invokeModel([s EXCEPT !.tryFrames = @ + (IF s.event.error = Undefined THEN 1 ELSE 0)],
                   h, hf)
  ELSE IF s.event.error # Undefined THEN throwInInvokeModel(s, s.event.error, hf)
  ELSE LET r == [s EXCEPT !.currentArgs = Undefined, !.tryFrames = 0]
       IN  IF s.modelResult.stopReason # "toolUse"
           THEN appendAndYield(r, s.modelResult.message, s.activeAgent, h, hf,
                               "messageAddedEvent.final")
           ELSE forward([r EXCEPT !.toolResultBlocks = <<>>, !.toolLog = <<>>],
                        HookEvent("beforeToolsEvent", Undefined), h, "beforeToolsEvent")

AfterModelCall ==
  /\ pc = "afterModelCallEvent"
  /\ \E r \in {afterModelCall(cur, h, hf) : h \in Hooks(cur, FALSE), hf \in Hooks(cur, TRUE)} :
       Apply(r)

\* _stream resumed after the final assistant message was added: it returns
ReturnResult ==
  /\ pc = "messageAddedEvent.final"
  /\ \E hf \in Hooks(cur, FALSE) :
       Apply(finallyBlock([cur EXCEPT !.activeAgentName = activeAgent], Return, hf))

\* executeTools resumed after BeforeToolsEvent (agent.ts:544-555)
executeTools(s, h, hf) ==
  IF Len(toolUseBlocksOf(s.modelResult.message)) = 0
  THEN finallyBlock(s, Throw("Error: no tool use blocks found"), hf)
  ELSE executeToolTop(s, h)

ExecuteTools ==
  /\ pc = "beforeToolsEvent"
  /\ \E r \in {executeTools(cur, h, hf) : h \in Hooks(cur, FALSE), hf \in Hooks(cur, FALSE)} :
       Apply(r)

\* executeTool resumed after BeforeToolCallEvent: the tool runs
ExecuteTool ==
  /\ pc = "beforeToolCallEvent"
  /\ \E o \in ToolOutcomes, h \in Hooks(cur, TRUE) :
       Apply(forward([runTool(cur, o) EXCEPT
                        !.toolLog = Append(@, <<"after", Len(toolResultBlocks) + 1>>)],
                     HookEvent("afterToolCallEvent", Undefined), h, "afterToolCallEvent"))

\* executeTools collecting the results in front of the list
afterToolCall_Prepend(s, h) ==
  IF s.event.retry THEN executeToolTop(s, h)
  ELSE [s EXCEPT !.toolResultBlocks = <<s.toolResult>> \o @, !.toolResult = NoToolResult,
                 !.pc = "toolResultBlock"]

\* executeTool returning the result whatever the retry flag of the event says
afterToolCall_NoRetry(s, h) ==
  [s EXCEPT !.toolResultBlocks = Append(@, s.toolResult), !.toolResult = NoToolResult,
            !.pc = "toolResultBlock"]

\* executeTool resumed after AfterToolCallEvent (agent.ts:642-646), then
\* executeTools (agent.ts:556-558)
afterToolCall(s, h) ==
  IF s.event.retry THEN executeToolTop(s, h)
  ELSE [s EXCEPT !.toolResultBlocks = Append(@, s.toolResult), !.toolResult = NoToolResult,
                 !.pc = "toolResultBlock"]

AfterToolCall ==
  /\ pc = "afterToolCallEvent"
  /\ \E h \in Hooks(cur, FALSE) : Apply(afterToolCall(cur, h))

\* executeTools resumed after it yielded a tool result block: the next tool
\* use block, or AfterToolsEvent
NextTool ==
  /\ pc = "toolResultBlock"
  /\ \E h \in Hooks(cur, FALSE) :
       Apply(IF Len(toolResultBlocks) < Len(toolUseBlocksOf(modelResult.message))
             THEN executeToolTop(cur, h)
             ELSE forward(cur, HookEvent("afterToolsEvent", Undefined), h, "afterToolsEvent"))

\* _stream resumed after AfterToolsEvent: the assistant message is appended
\* (agent.ts:379)
commitAssistant(s, h, hf) ==
  appendAndYield([s EXCEPT !.toolLog = <<>>], s.modelResult.message, s.activeAgent,
                 h, hf, "messageAddedEvent.assistant")

CommitAssistant ==
  /\ pc = "afterToolsEvent"
  /\ \E r \in {commitAssistant(cur, h, hf) : h \in Hooks(cur, FALSE), hf \in Hooks(cur, FALSE)} :
       Apply(r)

\* then the tool result message (agent.ts:380)
commitToolResults(s, h, hf) ==
  appendAndYield(s, Message("user", s.toolResultBlocks, Undefined), s.activeAgent,
                 h, hf, "messageAddedEvent.toolResult")

CommitToolResults ==
  /\ pc = "messageAddedEvent.assistant"
  /\ \E r \in {commitToolResults(cur, h, hf) : h \in Hooks(cur, FALSE), hf \in Hooks(cur, FALSE)} :
       Apply(r)

\* _stream after the commit: the transfer check (agent.ts:382-418)
transferCheck(s, initOk, h, hf) ==
  LET pendingTarget == s.pendingTransferTarget
      c == [s EXCEPT !.pendingTransferTarget = Undefined, !.modelResult = NoModelResult,
                     !.toolResultBlocks = <<>>]
  IN  IF pendingTarget # Undefined
      THEN IF findAgent(pendingTarget) = Undefined
           THEN finallyBlock(c, Throw("Error: agent not found in the agent tree"), hf)
           ELSE IF s.consecutiveTransfers >= MAX_CONSECUTIVE_TRANSFERS
           THEN loopTop([c EXCEPT !.consecutiveTransfers = 0], initOk, h, hf)
           ELSE forward([c EXCEPT !.nextAgent = findAgent(pendingTarget)],
                        HookEvent("beforeTransferEvent", Undefined), h, "beforeTransferEvent")
      ELSE loopTop([c EXCEPT !.consecutiveTransfers = 0], initOk, h, hf)

TransferCheck ==
  /\ pc = "messageAddedEvent.toolResult"
  /\ \E r \in {transferCheck(cur, initOk, h, hf) :
                   initOk \in BOOLEAN, h \in Hooks(cur, FALSE), hf \in Hooks(cur, FALSE)} :
       Apply(r)

\* _stream resumed after BeforeTransferEvent: the switch (agent.ts:405-413)
Transfer ==
  /\ pc = "beforeTransferEvent"
  /\ \E h \in Hooks(cur, FALSE) :
       Apply(forward([cur EXCEPT !.activeAgent = nextAgent, !.activeAgentName = nextAgent,
                                 !.nextAgent = Undefined,
                                 !.consecutiveTransfers = @ + 1],
                     HookEvent("afterTransferEvent", Undefined), h, "afterTransferEvent"))

\* _stream resumed after AfterTransferEvent: `continue`
ContinueAfterTransfer ==
  /\ pc = "afterTransferEvent"
  /\ \E r \in {loopTop(cur, initOk, h, hf) :
                   initOk \in BOOLEAN, h \in Hooks(cur, FALSE), hf \in Hooks(cur, FALSE)} :
       Apply(r)

\* _stream resumed after the AfterInvocationEvent of its finally block: the
\* pending completion takes place; _streamFromEntry yields the result
\* (agent.ts:343) or ends with the error
finish(s) ==
  IF s.completion.kind = "throw" THEN exitEntry(s, s.completion.error)
  ELSE [s EXCEPT !.pc = "agentResult"]

Finish ==
  /\ pc = "afterInvocationEvent"
  /\ Apply(finish(cur))

\* _streamFromEntry resumed after it yielded the result: it returns it
EntryReturns ==
  /\ pc = "agentResult"
  /\ Apply(exitEntry(cur, "AgentResult"))

---------------------------------------------------------------------------
(* Specification of the agent: a tree with an empty history and the        *)
(* sliding-window manager of window AgentWindowSize.                       *)

\* the fields of a root no call was made on yet, its history empty
AtRest ==
  /\ messages = <<>>
  /\ windowSize = AgentWindowSize
  /\ shouldTruncateResults = TRUE
  /\ lastReduce = NoReduce
  /\ isInvoking = FALSE
  /\ initialized = {}
  /\ activeAgentName = Undefined
  /\ pendingTransferTarget = Undefined
  /\ consecutiveTransfers = 0
  /\ pc = "idle"
  /\ currentArgs = Undefined
  /\ activeAgent = Undefined
  /\ nextAgent = Undefined
  /\ appendIdx = 0
  /\ tryFrames = 0
  /\ modelResult = NoModelResult
  /\ toolResultBlocks = <<>>
  /\ toolResult = NoToolResult
  /\ event = NoEvent
  /\ completion = NoCompletion
  /\ outcome = None
  /\ calls = 0
  /\ modelCalls = 0
  /\ retries = 0
  /\ nBeforeInvocation = 0
  /\ nAfterInvocation = 0
  /\ inputAppends = 0
  /\ toolLog = <<>>

Init ==
  /\ AtRest
  /\ tree = TestTree
  /\ arrays = NoArrays
  /\ bash = NoBash

\* a caller calls stream() or invoke() on an agent of the tree
StreamCalled ==
  /\ isInvoking \/ calls < MaxInvocations
  /\ \E r \in UNION {stream(agent, args) : agent \in EntryAgents, args \in InvokeArgs} :
       Apply(r)

Next ==
  \/ StreamCalled
  \/ EarlyReturn
  \/ FirstIteration
  \/ AppendInput
  \/ ModelAnswers
  \/ ModelThrows
  \/ ModelStopsAtMaxTokens
  \/ AfterModelCall
  \/ ReturnResult
  \/ ExecuteTools
  \/ ExecuteTool
  \/ AfterToolCall
  \/ NextTool
  \/ CommitAssistant
  \/ CommitToolResults
  \/ TransferCheck
  \/ Transfer
  \/ ContinueAfterTransfer
  \/ Finish
  \/ EntryReturns

Spec == Init /\ [][Next]_vars

---------------------------------------------------------------------------
(* Specification of the transfer chain: the same agent and the same loop,  *)
(* with a model provider that answers or asks for a transfer to a target   *)
(* the tool offers, for up to MaxTransferCalls model calls, so that the    *)
(* counter reaches MAX_CONSECUTIVE_TRANSFERS.                              *)

\* the agents the model of the chain asks to transfer to
ChainTargets == {"math", "root"}

\* what Model.streamAggregated returns in the chain: the final answer, or a
\* transfer_to_agent call naming one of the targets listed to the model
TransferResults(s) ==
  {[message |-> Message("assistant", <<TextBlock("answer")>>, Undefined), stopReason |-> "endTurn"]}
  \cup {[message |-> Message("assistant", <<ToolUseBlock("transfer_to_agent", "t1", target)>>,
                             Undefined),
         stopReason |-> "toolUse"] : target \in _getTransferTargets(s.activeAgent) \cap ChainTargets}

\* _streamFromModel returns a result of the chain
ModelOffersTransfer ==
  /\ pc = "beforeModelCallEvent"
  /\ modelCalls < MaxTransferCalls
  /\ \E result \in TransferResults(cur), h \in Hooks(cur, TRUE) :
       Apply(forward([cur EXCEPT !.modelCalls = @ + 1, !.modelResult = result],
                     HookEvent("afterModelCallEvent", Undefined), h, "afterModelCallEvent"))

\* a caller calls stream() or invoke() on the root with a string
ChainCalled ==
  /\ isInvoking \/ calls < MaxInvocations
  /\ \E r \in stream(RootAgent, "hello") : Apply(r)

NextTransfers ==
  \/ ChainCalled
  \/ EarlyReturn
  \/ FirstIteration
  \/ AppendInput
  \/ ModelOffersTransfer
  \/ AfterModelCall
  \/ ReturnResult
  \/ ExecuteTools
  \/ ExecuteTool
  \/ AfterToolCall
  \/ NextTool
  \/ CommitAssistant
  \/ CommitToolResults
  \/ TransferCheck
  \/ Transfer
  \/ ContinueAfterTransfer
  \/ Finish
  \/ EntryReturns

SpecTransfers == Init /\ [][NextTransfers]_vars

---------------------------------------------------------------------------
(* Specification of tree construction: agents are constructed in any       *)
(* order, with links declared by subAgents or by parentAgent, and messages *)
(* are appended through them.                                              *)

\* the sequences of distinct agents out of a set, up to two long
subAgentLists(S) ==
  ({<<>>} \cup {<<a>> : a \in S} \cup {<<a, b>> : a \in S, b \in S}) \ {<<a, a>> : a \in S}

\* the agent objects the caller holds
builtAgents == {a \in Agents : tree[a].built}

\* the names a config gives: none, or one of two
ConfigNames == {Undefined, "tutor", "dup"}

\* the configs a caller can pass: a name or none, initial messages or none,
\* agents it holds
AgentConfigs ==
  {AgentConfig(name, msgs, subs, parent) :
     name \in ConfigNames,
     msgs \in {<<>>, <<Message("user", <<TextBlock("earlier")>>, Undefined)>>},
     subs \in subAgentLists(builtAgents),
     parent \in {Undefined} \cup builtAgents}

InitTree ==
  /\ AtRest
  /\ tree = NoTree
  /\ arrays = NoArrays
  /\ bash = NoBash

\* new Agent(config) for an agent that does not exist yet; what the
\* constructor did to other agents stays when it throws
Construct ==
  \E this \in {a \in Agents : tree[a] = NoAgent}, config \in AgentConfigs :
    /\ tree' = constructor(tree, this, config).tree
    /\ arrays' = [arrays EXCEPT ![this] = config.messages]
    /\ outcome' = constructor(tree, this, config).thrown
    /\ UNCHANGED varsOfLoop
    /\ UNCHANGED bash

\* a message is appended to the history in an invocation on an agent of the
\* tree: stream() runs on the root (agent.ts:310-316), _appendMessage pushes
\* to the root's messages (agent.ts:660)
AppendInTree ==
  \E agent \in builtAgents :
    /\ Len(arrays[tree[getRootAgent(tree, agent)].messages]) < MaxTreeMessages
    /\ arrays' = [arrays EXCEPT ![tree[getRootAgent(tree, agent)].messages] =
                    Append(@, Message("user", <<TextBlock("hello")>>, Undefined))]
    /\ UNCHANGED <<tree, outcome, bash>>
    /\ UNCHANGED varsOfLoop

NextTree ==
  \/ Construct
  \/ AppendInTree

SpecTree == InitTree /\ [][NextTree]_vars

---------------------------------------------------------------------------
(* Specification of the sliding-window manager alone: its two callbacks    *)
(* run on every history up to MaxHistory messages over MessageAlphabet,    *)
(* with every window up to MaxWindow and both settings of                  *)
(* shouldTruncateResults.  lastReduce records the history the last         *)
(* callback was given and how its reduction ended.                         *)

placeholderResult(toolUseId) ==
  ToolResultBlock(toolUseId, "error", <<TextBlock(toolResultTooLargeMessage)>>, Undefined)

MessageAlphabet ==
  {Message("user", <<TextBlock("question")>>, Undefined),
   Message("assistant", <<TextBlock("answer")>>, "root"),
   Message("assistant", <<ToolUseBlock("echo", "t1", "{}")>>, "root"),
   Message("user", <<ToolResultBlock("t1", "success", <<TextBlock("large output")>>, Undefined)>>,
           "root"),
   Message("user", <<placeholderResult("t1")>>, Undefined),
   Message("user", <<placeholderResult("t1"),
                     ToolResultBlock("t2", "success", <<TextBlock("large output")>>, Undefined)>>,
           "root"),
   Message("user", <<ToolResultBlock("t1", "success", <<TextBlock("large output")>>, Undefined),
                     ToolResultBlock("t2", "error", <<TextBlock("tool failed")>>, Undefined)>>,
           "root")}

Histories == UNION {[1..n -> MessageAlphabet] : n \in 0..MaxHistory}

InitReduce ==
  /\ messages \in Histories
  /\ windowSize \in 0..MaxWindow
  /\ shouldTruncateResults \in BOOLEAN
  /\ lastReduce = NoReduce
  /\ isInvoking = FALSE
  /\ initialized = {}
  /\ activeAgentName = Undefined
  /\ pendingTransferTarget = Undefined
  /\ consecutiveTransfers = 0
  /\ pc = "idle"
  /\ currentArgs = Undefined
  /\ activeAgent = Undefined
  /\ nextAgent = Undefined
  /\ appendIdx = 0
  /\ tryFrames = 0
  /\ modelResult = NoModelResult
  /\ toolResultBlocks = <<>>
  /\ toolResult = NoToolResult
  /\ event = NoEvent
  /\ completion = NoCompletion
  /\ outcome = None
  /\ calls = 0
  /\ modelCalls = 0
  /\ retries = 0
  /\ nBeforeInvocation = 0
  /\ nAfterInvocation = 0
  /\ inputAppends = 0
  /\ toolLog = <<>>
  /\ tree = TestTree
  /\ arrays = NoArrays
  /\ bash = NoBash

\* the callback of the manager for the event by ran on the history: r is what
\* its reduction did
reduced(s, by, r) ==
  [s EXCEPT !.messages = r.messages,
            !.lastReduce = [by |-> by, input |-> s.messages, how |-> r.how,
                            thrown |-> r.thrown]]

\* the AfterModelCallEvent callback on a context window overflow
\* (sliding-window-conversation-manager.ts:72-78)
OverflowReduce ==
  /\ pc = "idle"
  /\ Apply(reduced(cur, "afterModelCallEvent",
                   reduceContext(messages, windowSize, shouldTruncateResults)))

\* the AfterInvocationEvent callback (sliding-window-conversation-manager.ts:68-70)
AfterInvocationManage ==
  /\ pc = "idle"
  /\ Apply(reduced(cur, "afterInvocationEvent",
                   applyManagement(messages, windowSize, shouldTruncateResults)))

NextReduce ==
  \/ OverflowReduce
  \/ AfterInvocationManage

SpecReduce == InitReduce /\ [][NextReduce]_vars

\* a run of reductions: the overflow callback keeps being called, as it is
\* by a loop that retries the model call while the provider reports overflow
InitRun ==
  /\ InitReduce
  /\ shouldTruncateResults
  /\ Len(messages) <= MaxRunHistory

SpecReduceRun == InitRun /\ [][NextReduce]_vars /\ WF_vars(OverflowReduce)

---------------------------------------------------------------------------
(* Specification of the bash tool: execute and restart calls for the       *)
(* agents of the tree, one after another.                                  *)

\* bash.invoke({ mode: 'execute', command }, context)
BashExecute ==
  \E agent \in BashAgents, command \in BashCommands \cup {Undefined}, ended \in BashEnds :
    /\ Len(bash.processes) < MaxBashProcesses
    /\ Len(bash.objects) < MaxBashSessions \/ bash.sessions[agent] # NoSession
    /\ bash' = execute(bash, agent, command, ended)
    /\ UNCHANGED <<tree, arrays, outcome>>
    /\ UNCHANGED varsOfLoop

\* bash.invoke({ mode: 'restart' }, context)
BashRestart ==
  \E agent \in BashAgents :
    /\ Len(bash.objects) < MaxBashSessions
    /\ bash' = restart(bash, agent)
    /\ UNCHANGED <<tree, arrays, outcome>>
    /\ UNCHANGED varsOfLoop

NextBash ==
  \/ BashExecute
  \/ BashRestart

SpecBash == Init /\ [][NextBash]_vars

---------------------------------------------------------------------------
(* Properties *)

\* everything a rejected call must leave alone
varsButOutcome ==
  <<messages, windowSize, shouldTruncateResults, lastReduce, isInvoking,
    initialized, activeAgentName, pendingTransferTarget,
    consecutiveTransfers, pc, currentArgs, activeAgent, nextAgent,
    appendIdx, tryFrames, modelResult, toolResultBlocks, toolResult, event,
    completion, calls, modelCalls, retries, nBeforeInvocation,
    nAfterInvocation, inputAppends, toolLog, tree, arrays, bash>>

\* C1: while a call is in flight, a second stream()/invoke() on the tree
\* fails at once with ConcurrentInvocationError and leaves no trace (it is
\* not queued: nothing but its own outcome changes); a call made when no
\* call is in flight is accepted.
C1_ConcurrencyGuard ==
  [][StreamCalled =>
       IF pc # "idle"
       THEN outcome' = "ConcurrentInvocationError" /\ UNCHANGED varsButOutcome
       ELSE outcome' # "ConcurrentInvocationError" /\ calls' = calls + 1]_vars

\* C1 witness: a first call has completed, a second one was accepted and is
\* in flight, and a call made meanwhile was rejected
C1_Witness ==
  /\ calls = 2
  /\ pc = "afterModelCallEvent"
  /\ outcome = "ConcurrentInvocationError"

\* C2: whenever no call is in flight the lock is free, so that acquireLock
\* accepts the next call, whichever way the last call ended.
C2_LockReleased ==
  pc = "idle" => (~isInvoking /\ acquireLock(cur).thrown = None)

\* C2 witness: a second call, accepted after the first ended, was ended by
\* the consumer's return() after it appended to the history; the lock is free
C2_Witness ==
  /\ pc = "idle"
  /\ calls = 2
  /\ outcome = "EarlyReturn"
  /\ ~isInvoking
  /\ Len(messages) > 0

\* C3: an invocation that dispatched BeforeInvocationEvent and was consumed
\* to its end (it returned or threw; the consumer did not call return())
\* dispatched AfterInvocationEvent exactly once by the time the lock is free,
\* whatever threw.
C3_AfterInvocationOnce ==
  (pc = "idle" /\ calls > 0 /\ nBeforeInvocation = 1 /\ outcome # "EarlyReturn")
    => nAfterInvocation = 1

\* the assistant messages with a tool use block that the next message does
\* not answer: it is not a user message with a result for each tool use id
resultIds(message) ==
  {message.content[i].toolUseId :
     i \in {j \in 1..Len(message.content) : message.content[j].type = "toolResultBlock"}}

useIds(message) ==
  {message.content[i].toolUseId :
     i \in {j \in 1..Len(message.content) : message.content[j].type = "toolUseBlock"}}

danglingToolUses(msgs) ==
  {i \in 1..Len(msgs) :
     /\ msgs[i].role = "assistant"
     /\ hasToolUse(msgs[i])
     /\ ~(/\ i < Len(msgs)
          /\ msgs[i + 1].role = "user"
          /\ useIds(msgs[i]) \subseteq resultIds(msgs[i + 1]))}

\* C4: whenever an invocation has ended, by a return or by a thrown error,
\* the history holds no assistant tool-use message that is not followed at
\* once by the user message with its tool results.
C4_NoDanglingToolUse ==
  (pc = "idle" /\ calls > 0 /\ outcome # "EarlyReturn") => danglingToolUses(messages) = {}

\* C5: with the sliding-window manager in place, an overflow error of a
\* model call whose reduction succeeded is not raised to the caller: it is
\* neither the pending completion of _stream nor the outcome of the call.
C5_OverflowNotRaised ==
  /\ outcome # ModelOverflow
  /\ ~(completion.kind = "throw" /\ completion.error = ModelOverflow)

\* the messages with a tool use block that the next message does not answer
\* with a tool result block
unanswered(msgs) ==
  {i \in 1..Len(msgs) :
     hasToolUse(msgs[i]) /\ ~(i < Len(msgs) /\ hasToolResult(msgs[i + 1]))}

\* C6 as stated: after every successful reduction, for every input history,
\* the result does not begin with a tool-result message and holds no
\* tool-use message without a tool result in the message right after it.
C6_PairingForEveryHistory ==
  lastReduce.how \in {"truncated", "trimmed"} =>
    /\ ~(Len(messages) > 0 /\ hasToolResult(messages[1]))
    /\ unanswered(messages) = {}

\* C6 amended: after a successful reduction that trims, for every input
\* history, the result is not empty, its first message holds no tool
\* result, and if it holds a tool use the second message holds a tool
\* result; and no successful reduction makes a tool use unanswered: a tool
\* use that the result leaves unanswered was unanswered in the input.
C6_ReductionPairing ==
  lastReduce.how \in {"truncated", "trimmed"} =>
    LET input == lastReduce.input
        removed == Len(input) - Len(messages)
    IN  /\ lastReduce.how = "trimmed" =>
             /\ Len(messages) > 0
             /\ ~hasToolResult(messages[1])
             /\ hasToolUse(messages[1]) =>
                  (Len(messages) > 1 /\ hasToolResult(messages[2]))
        /\ \A i \in unanswered(messages) : (i + removed) \in unanswered(input)

\* C6 witness: a trim whose cut moved forward past a tool result to a
\* tool-use message followed by its result
C6_Witness ==
  /\ lastReduce.how = "trimmed"
  /\ Len(lastReduce.input) = 4
  /\ Len(messages) = 2
  /\ windowSize = 3
  /\ hasToolUse(messages[1])
  /\ hasToolResult(messages[2])
  /\ hasToolResult(lastReduce.input[2])

\* the tool use block that executeTool is running
currentToolUse(s) == toolUseBlocksOf(s.modelResult.message)[Len(s.toolResultBlocks) + 1]

\* the current tool use fails: its tool is not in the effective registry, or
\* its tool throws, or (o) its stream throws or ends without a result
toolFails(s, o) ==
  LET toolUseBlock == currentToolUse(s)
  IN  \/ toolUseBlock.name \notin _buildRuntimeForActiveAgent(s.activeAgent)
      \/ /\ toolUseBlock.name = "transfer_to_agent"
         /\ transferToAgent(s, toolUseBlock.input).thrown # None
      \/ /\ toolUseBlock.name # "transfer_to_agent"
         /\ o \in {"throws", "noResult"}

\* C7: a tool use whose tool is missing, throws or ends without a result
\* yields an error tool result with the block's toolUseId and throws
\* nothing; the step that runs a tool ends at AfterToolCallEvent with a
\* result for that block (only a throwing hook callback ends the call
\* there), and without a retry the result joins the results of the turn.
C7_ToolFailureIsResult ==
  [][/\ ExecuteTool =>
          /\ \A o \in ToolOutcomes :
               toolFails(cur, o) =>
                 /\ runTool(cur, o).thrown = None
                 /\ runTool(cur, o).toolResult.status = "error"
                 /\ runTool(cur, o).toolResult.toolUseId = currentToolUse(cur).toolUseId
          /\ \/ /\ pc' = "afterToolCallEvent"
                /\ toolResult'.toolUseId = currentToolUse(cur).toolUseId
                /\ toolResult'.status \in {"success", "error"}
             \/ pc' = "idle" /\ outcome' = "HookError"
     /\ (AfterToolCall /\ ~event.retry) =>
          /\ pc' = "toolResultBlock"
          /\ toolResultBlocks' = Append(toolResultBlocks, toolResult)]_vars

\* C7 witness: the model is about to be called again with a history that
\* ends with the committed pair, the result of the unregistered tool and
\* that of the tool that failed both being error results
C7_Witness ==
  /\ pc = "beforeModelCallEvent"
  /\ modelCalls = 1
  /\ Len(messages) >= 2
  /\ hasToolUse(messages[Len(messages) - 1])
  /\ Len(messages[Len(messages)].content) = 2
  /\ \A i \in 1..2 :
       /\ messages[Len(messages)].content[i].type = "toolResultBlock"
       /\ messages[Len(messages)].content[i].status = "error"

toolUseIds(message) ==
  [i \in 1..Len(toolUseBlocksOf(message)) |-> toolUseBlocksOf(message)[i].toolUseId]

\* C8: tools run one after another in block order (a BeforeToolCallEvent
\* is the first dispatch or follows the AfterToolCallEvent of the same or
\* the previous block, an AfterToolCallEvent follows the BeforeToolCallEvent
\* of its block), and the results collected and committed are one per tool
\* use block, the i-th for the i-th block.
C8_SequentialInOrder ==
  /\ \A k \in 1..Len(toolLog) :
       IF toolLog[k][1] = "before"
       THEN \/ k = 1 /\ toolLog[k][2] = 1
            \/ /\ k > 1
               /\ toolLog[k - 1][1] = "after"
               /\ toolLog[k][2] \in {toolLog[k - 1][2], toolLog[k - 1][2] + 1}
       ELSE k > 1 /\ toolLog[k - 1] = <<"before", toolLog[k][2]>>
  /\ pc = "afterToolsEvent" =>
       /\ Len(toolResultBlocks) = Len(toolUseBlocksOf(modelResult.message))
       /\ \A i \in 1..Len(toolResultBlocks) :
            toolResultBlocks[i].toolUseId = toolUseIds(modelResult.message)[i]
  /\ pc = "messageAddedEvent.toolResult" =>
       /\ Len(messages) >= 2
       /\ messages[Len(messages)].role = "user"
       /\ [i \in 1..Len(messages[Len(messages)].content) |->
             messages[Len(messages)].content[i].toolUseId]
            = toolUseIds(messages[Len(messages) - 1])

\* C8 witness: the pair of a turn with two tool use blocks is committed,
\* the results in the order of the blocks
C8_Witness ==
  /\ pc = "messageAddedEvent.toolResult"
  /\ Len(messages[Len(messages)].content) = 2
  /\ messages[Len(messages)].content[1].toolUseId = "t1"
  /\ messages[Len(messages)].content[2].toolUseId = "t2"

\* C9: the caller's input is appended to the history once per invocation,
\* however many times the model call is retried.
C9_InputAppendedOnce == inputAppends <= 1

numAssistant(msgs) == Cardinality({i \in 1..Len(msgs) : msgs[i].role = "assistant"})

\* the enclosing invokeModel, suspended in its try block, caught the error
\* of the event and dispatches an AfterModelCallEvent with it once more
redispatched ==
  /\ tryFrames > 0
  /\ tryFrames' = tryFrames - 1
  /\ pc' = "afterModelCallEvent"
  /\ event'.error = event.error
  /\ modelCalls' = modelCalls

\* C10 as stated: when no callback set the retry flag of the
\* AfterModelCallEvent of a failed model call, the call is not made again,
\* no assistant message is appended, and the caller gets the model's error.
C10_OriginalErrorThrown ==
  [][/\ (ModelThrows /\ pc' = "idle") => outcome' \in ModelErrors
     /\ (AfterModelCall /\ event.error # Undefined /\ ~event.retry) =>
          /\ numAssistant(messages') <= numAssistant(messages)
          /\ \/ pc' = "afterInvocationEvent" /\ completion' = Throw(event.error)
             \/ redispatched
     /\ (Finish /\ completion.kind = "throw") =>
          (pc' = "idle" /\ outcome' = completion.error)]_vars

\* the errors that callbacks throw: a user callback's, the manager's
callbackErrors == {"HookError", ReduceOverflow}

\* C10 amended: when no callback set the retry flag of an
\* AfterModelCallEvent that carries the error of a failed model call, the
\* call is not made again and no assistant message is appended; the error
\* goes to the enclosing invokeModel that was retrying a successful call,
\* which dispatches it once more, or else becomes the pending completion of
\* the invocation and reaches the caller, unless a callback of an
\* AfterModelCallEvent or of the AfterInvocationEvent throws: then the call
\* ends with the callback's error.
C10_ModelErrorTerminal ==
  [][/\ (ModelThrows /\ pc' = "idle") => outcome' \in callbackErrors
     /\ (AfterModelCall /\ event.error # Undefined /\ ~event.retry) =>
          /\ numAssistant(messages') <= numAssistant(messages)
          /\ \/ pc' = "afterInvocationEvent" /\ completion' = Throw(event.error)
             \/ redispatched
             \/ pc' = "idle" /\ outcome' \in callbackErrors
     /\ (Finish /\ completion.kind = "throw") =>
          (pc' = "idle" /\ outcome' = completion.error)]_vars

\* C10 witness: the one model call of an invocation failed, nobody asked
\* for a retry, and the caller got the model's error after the
\* AfterInvocationEvent; the history holds the input only
C10_Witness ==
  /\ pc = "idle"
  /\ outcome = "ModelError"
  /\ calls = 1
  /\ modelCalls = 1
  /\ retries = 0
  /\ nAfterInvocation = 1
  /\ numAssistant(messages) = 0
  /\ Len(messages) = 1


\* C11: once the counter is at MAX_CONSECUTIVE_TRANSFERS, a transfer the
\* model asks for is not executed: the tool call ends in an error result and
\* queues nothing, no switch of agent takes place at that count, and the
\* turn boundary resets the counter and goes on to the next model call with
\* the same active agent (the call ends there only if a callback of the next
\* event throws).
C11_TransferCeiling ==
  [][/\ ( /\ consecutiveTransfers >= MAX_CONSECUTIVE_TRANSFERS
          /\ ExecuteTool
          /\ currentToolUse(cur).name = "transfer_to_agent"
          /\ pc' = "afterToolCallEvent" ) =>
          /\ toolResult'.status = "error"
          /\ pendingTransferTarget' = pendingTransferTarget
          /\ activeAgent' = activeAgent
     /\ (consecutiveTransfers >= MAX_CONSECUTIVE_TRANSFERS /\ TransferCheck) =>
          /\ consecutiveTransfers' = 0
          /\ \/ pc' = "beforeModelCallEvent" /\ activeAgent' = activeAgent
             \/ pc' = "idle" /\ outcome' = "HookError"
     /\ Transfer => consecutiveTransfers < MAX_CONSECUTIVE_TRANSFERS]_vars

\* C11 witness: one invocation made nine model calls, each asking for a
\* transfer; eight were executed, the ninth ended in an error result, and
\* the loop is at its next model call with the counter back at 0
C11_Witness ==
  /\ pc = "beforeModelCallEvent"
  /\ calls = 1
  /\ modelCalls = MAX_CONSECUTIVE_TRANSFERS + 1
  /\ retries = 0
  /\ consecutiveTransfers = 0
  /\ activeAgent = "root"
  /\ Len(messages) = 1 + 2 * (MAX_CONSECUTIVE_TRANSFERS + 1)
  /\ messages[Len(messages)].content[1].status = "error"

\* C12: a turn that completes without a transfer leaves the counter at 0,
\* be it a tool turn that queued no transfer or the turn of the final
\* answer, so the counter is 0 when the invocation hands out its result.
C12_CounterResetWithoutTransfer ==
  [][/\ (TransferCheck /\ pendingTransferTarget = Undefined) => consecutiveTransfers' = 0
     /\ ReturnResult => consecutiveTransfers' = 0
     /\ EntryReturns => consecutiveTransfers = 0]_vars

\* C13: the pending transfer target is consumed at the boundary of the turn
\* whose tool call queued it: no target is pending while no invocation is in
\* flight, nor when the next invocation has started.
C13_PendingConsumedInTurn ==
  /\ pc = "idle" => pendingTransferTarget = Undefined
  /\ pc = "beforeInvocationEvent" => pendingTransferTarget = Undefined

\* the agents the claim lets agent a hand over to: its children, its parent
\* unless a disallows it, its siblings unless a disallows it
allowedSuccessors(a) ==
  {b \in Agents : parentAgent(b) = a}
    \cup {b \in Agents : b = parentAgent(a) /\ ~disallowTransferToParent(a)}
    \cup {b \in Agents : /\ b # a
                         /\ parentAgent(a) # Undefined
                         /\ parentAgent(b) = parentAgent(a)
                         /\ ~disallowTransferToPeers(a)}

\* C14: every executed transfer switches the active agent to a child, to the
\* parent or to a sibling of the agent that was active, as far as that agent
\* allows it.
C14_TransferToAllowedTarget ==
  [][Transfer => /\ activeAgentName' \in allowedSuccessors(activeAgent)
                 /\ pc' # "idle" => activeAgent' = activeAgentName']_vars

\* the transfer_to_agent calls of an assistant message
transferCalls(message) ==
  {i \in 1..Len(toolUseBlocksOf(message)) :
     toolUseBlocksOf(message)[i].name = "transfer_to_agent"}

\* the message asks for a transfer, and only to agents that agent a does not
\* hand over to
asksInvalidTransferOnly(message, a) ==
  /\ transferCalls(message) # {}
  /\ \A i \in transferCalls(message) :
       toolUseBlocksOf(message)[i].input \notin allowedSuccessors(a)

startsWith(agent) ==
  IF parentAgent(agent) # Undefined THEN agent
  ELSE IF activeAgentName # Undefined /\ activeAgentName \in Agents THEN activeAgentName
  ELSE agent

\* C16: an accepted call on a sub-agent starts with that sub-agent active,
\* whatever agent the tree remembers; an accepted call on the root starts
\* with the remembered agent when there is one, and with the root if not.
C16_InitialActiveAgent ==
  [][\A agent \in EntryAgents, args \in InvokeArgs :
       ( /\ pc = "idle"
         /\ pc' = "beforeInvocationEvent"
         /\ \E r \in stream(agent, args) : Apply(r) ) =>
       activeAgent' = startsWith(agent)]_vars

\* C16 witness: the tree remembers the root, a call on the sub-agent math
\* was accepted, and math is the active agent
C16_Witness ==
  /\ pc = "beforeInvocationEvent"
  /\ calls = 2
  /\ activeAgentName = "root"
  /\ activeAgent = "math"

\* C17: while an invocation is in flight, on whichever agent of the tree it
\* was started, a stream()/invoke() call on any agent of the tree (the root
\* or a sub-agent) ends with ConcurrentInvocationError and touches neither
\* the shared history nor the invocation in flight.
C17_TreeWideLock ==
  pc # "idle" =>
    \A agent \in Agents, args \in InvokeArgs :
      \A r \in stream(agent, args) :
        /\ r.outcome = "ConcurrentInvocationError"
        /\ r.messages = messages
        /\ r.pc = pc
        /\ r.activeAgent = activeAgent
        /\ r.calls = calls

\* C17 witness: an invocation started on the sub-agent math is in flight, a
\* call made meanwhile was rejected
C17_Witness ==
  /\ pc = "beforeModelCallEvent"
  /\ calls = 1
  /\ activeAgentName = Undefined
  /\ activeAgent = "math"
  /\ outcome = "ConcurrentInvocationError"

\* C18: every agent object that has a parent refers to the very array its
\* root refers to, so the two see the same messages.
C18_SharedHistory ==
  \A a \in builtAgents :
    tree[a].parentAgent # Undefined =>
      /\ tree[a].messages = tree[getRootAgent(tree, a)].messages
      /\ arrays[tree[a].messages] = arrays[tree[getRootAgent(tree, a)].messages]

\* the position of the most recent message with a tool result, 0 if none
lastWithToolResult(msgs) ==
  IF \E i \in 1..Len(msgs) : hasToolResult(msgs[i])
  THEN CHOOSE i \in 1..Len(msgs) :
         hasToolResult(msgs[i]) /\ \A j \in (i + 1)..Len(msgs) : ~hasToolResult(msgs[j])
  ELSE 0

\* the block is the placeholder of a truncation: an error result whose
\* first content block is the text "The tool result was too large!"
isPlaceholder(block) ==
  /\ block.type = "toolResultBlock"
  /\ block.status = "error"
  /\ Len(block.content) > 0
  /\ block.content[1] = TextBlock("The tool result was too large!")

\* the first tool result block of a message that has one
firstToolResult(message) ==
  message.content[CHOOSE i \in 1..Len(message.content) :
                    /\ message.content[i].type = "toolResultBlock"
                    /\ \A j \in 1..(i - 1) : message.content[j].type # "toolResultBlock"]

\* a truncation is still to come: the first tool result of the most recent
\* tool-result message is not the placeholder
truncationAhead(msgs) ==
  /\ lastWithToolResult(msgs) # 0
  /\ ~isPlaceholder(firstToolResult(msgs[lastWithToolResult(msgs)]))

\* a call of reduceContext: by the overflow callback, or by the
\* after-invocation callback on a history longer than the window
reduceCalled ==
  \/ OverflowReduce
  \/ AfterInvocationManage /\ Len(messages) > windowSize

\* C19: with shouldTruncateResults, reductions of a history nothing is
\* appended to make progress: a truncation happens only while one is ahead
\* and none is ahead after it or after any later reduction, so it happens at
\* most once; every other reduction removes a message or fails with
\* ContextWindowOverflowError and leaves the history alone; and a run of
\* reductions comes to that error.
C19_ReductionProgress ==
  /\ [][(shouldTruncateResults /\ reduceCalled) =>
          /\ lastReduce'.how \in {"truncated", "trimmed", "failed"}
          /\ lastReduce'.how = "truncated" =>
               (truncationAhead(messages) /\ Len(messages') = Len(messages))
          /\ ~truncationAhead(messages) => lastReduce'.how # "truncated"
          /\ lastReduce'.how # "failed" => ~truncationAhead(messages')
          /\ lastReduce'.how = "trimmed" => Len(messages') < Len(messages)
          /\ lastReduce'.how = "failed" =>
               (lastReduce'.thrown = ReduceOverflow /\ messages' = messages)]_vars
  /\ <>(lastReduce.thrown = ReduceOverflow)

\* C19 witness: the two tool results of the last message were truncated by
\* one reduction, and the run of reductions has ended in the overflow error
\* with the truncated message still in the history
C19_Witness ==
  /\ shouldTruncateResults
  /\ lastReduce.thrown = ReduceOverflow
  /\ Len(messages) = 2
  /\ lastWithToolResult(messages) = 2
  /\ messages[2].author = Undefined
  /\ Len(messages[2].content) = 2
  /\ isPlaceholder(messages[2].content[1])
  /\ isPlaceholder(messages[2].content[2])

\* the tool result blocks of the message are all the placeholder
allPlaceholders(message) ==
  \A i \in 1..Len(message.content) :
    message.content[i].type = "toolResultBlock" => isPlaceholder(message.content[i])

\* the reduction replaced the tool results of message at by the placeholder
\* with status error and exactly the one text, kept its other blocks and its
\* role, removed no message and left the other messages as they were
truncatedInPlace(before, after, at) ==
  /\ Len(after) = Len(before)
  /\ \A i \in 1..Len(before) : i # at => after[i] = before[i]
  /\ after[at].role = before[at].role
  /\ Len(after[at].content) = Len(before[at].content)
  /\ \A k \in 1..Len(before[at].content) :
       IF before[at].content[k].type = "toolResultBlock"
       THEN /\ after[at].content[k].type = "toolResultBlock"
            /\ after[at].content[k].toolUseId = before[at].content[k].toolUseId
            /\ after[at].content[k].status = "error"
            /\ after[at].content[k].content = <<TextBlock("The tool result was too large!")>>
       ELSE after[at].content[k] = before[at].content[k]

C21_TruncationIdempotent ==
  /\ [](\A msgIdx \in 0..(Len(messages) - 1) :
       LET once == truncateToolResults(messages, msgIdx)
           twice == truncateToolResults(once.messages, msgIdx)
       IN  /\ ( /\ hasToolResult(messages[msgIdx + 1])
                /\ \A k \in 1..Len(messages[msgIdx + 1].content) :
                     messages[msgIdx + 1].content[k].type = "toolResultBlock" =>
                       /\ messages[msgIdx + 1].content[k].status = "error"
                       /\ messages[msgIdx + 1].content[k].content
                            = <<TextBlock("The tool result was too large!")>> ) =>
                (~once.changed /\ once.messages = messages)
           /\ ~twice.changed
           /\ twice.messages = once.messages)
  /\ [][( /\ reduceCalled
          /\ lastWithToolResult(messages) # 0
          /\ allPlaceholders(messages[lastWithToolResult(messages)]) ) =>
          lastReduce'.how # "truncated"]_vars

\* C21 witness: the two tool results of the only message were truncated by
\* a first reduction, and a second reduction on the truncated message made
\* no change to it: it failed and left the history as it was
C21_Witness ==
  /\ shouldTruncateResults
  /\ lastReduce.how = "failed"
  /\ lastReduce.input = messages
  /\ Len(messages) = 1
  /\ messages[1].author = Undefined
  /\ Len(messages[1].content) = 2
  /\ isPlaceholder(messages[1].content[1])
  /\ isPlaceholder(messages[1].content[2])

oneToolResultMessage(msgs) ==
  /\ Len(msgs) = 1
  /\ Len(msgs[1].content) > 0
  /\ \A k \in 1..Len(msgs[1].content) : msgs[1].content[k].type = "toolResultBlock"

\* C23 as stated: with windowSize 0 and a history of one tool-result-only
\* message, a reduction raises ContextWindowOverflowError.
C23_LoneToolResultOverflows ==
  [][(reduceCalled /\ windowSize = 0 /\ oneToolResultMessage(messages)) =>
       lastReduce'.thrown = ReduceOverflow]_vars

\* C23 amended: with windowSize 0 and a history of one tool-result-only
\* message, a reduction raises ContextWindowOverflowError and leaves the
\* history alone when shouldTruncateResults is off or the first tool result
\* of the message is already the placeholder; otherwise it truncates the
\* tool results of the message and returns normally.
C23_LoneToolResultOverflowsUnlessTruncated ==
  [][(reduceCalled /\ windowSize = 0 /\ oneToolResultMessage(messages)) =>
       IF shouldTruncateResults /\ truncationAhead(messages)
       THEN /\ lastReduce'.thrown = None
            /\ lastReduce'.how = "truncated"
            /\ Len(messages') = 1
       ELSE /\ lastReduce'.thrown = ReduceOverflow
            /\ messages' = messages]_vars

\* C23 witness: with windowSize 0 and shouldTruncateResults off, the
\* overflow callback failed with ContextWindowOverflowError on a history of
\* one message with one successful tool result, which is still there
C23_Witness ==
  /\ windowSize = 0
  /\ ~shouldTruncateResults
  /\ lastReduce.by = "afterModelCallEvent"
  /\ lastReduce.thrown = ReduceOverflow
  /\ oneToolResultMessage(messages)
  /\ Len(messages[1].content) = 1
  /\ messages[1].content[1].status = "success"

\* the state at the yield of the AfterModelCallEvent of a failed model call,
\* after the dispatch in _streamFromEntry
failedCallDispatched(error, h) ==
  forward([cur EXCEPT !.modelCalls = @ + 1, !.modelResult = NoModelResult],
          HookEvent("afterModelCallEvent", error), h, "afterModelCallEvent")

\* C24: the callbacks of a dispatched event run in registration order, the
\* conversation manager's first, each to its end before the next: on the
\* AfterModelCallEvent of an overflow error the user callback runs on the
\* history the manager has reduced (it has been reduced even when the user
\* callback throws), and does not run at all when the manager's reduction
\* throws; the loop gets the event after both have run, so the event it
\* reads its retry flag from carries what both callbacks wrote.
C24_CallbacksInRegistrationOrder ==
  /\ [](pc = "beforeModelCallEvent" =>
       \A h \in Hooks(cur, TRUE) :
         LET d == failedCallDispatched(ModelOverflow, h)
             r == reduceContext(messages, windowSize, shouldTruncateResults)
         IN  IF r.thrown # None
             THEN /\ d.pc = "idle"
                  /\ d.outcome = r.thrown
                  /\ d.messages = messages
                  /\ d.retries = retries
             ELSE /\ d.messages = r.messages
                  /\ IF h = "throw"
                     THEN d.pc = "idle" /\ d.outcome = "HookError"
                     ELSE /\ d.pc = "afterModelCallEvent"
                          /\ d.event.retryModelCall
                          /\ d.event.retry = (h = "retry"))
  /\ []((pc = "afterModelCallEvent" /\ event.error = ModelOverflow) => event.retryModelCall)
  /\ [][(AfterModelCall /\ ~event.retry /\ event.error # Undefined) =>
          modelCalls' = modelCalls /\ pc' # "beforeModelCallEvent"]_vars

\* C24 witness: a model call failed with an overflow error; the manager's
\* callback reduced the history and the user callback, run after it on the
\* same event, asked for a retry; the loop has not read the flag yet
C24_Witness ==
  /\ pc = "afterModelCallEvent"
  /\ event.error = ModelOverflow
  /\ event.retryModelCall
  /\ event.retry
  /\ retries = 1

\* no constructor has thrown: every agent object that was set up was
\* handed to its caller
noConstructionError == \A a \in Agents : tree[a] = NoAgent \/ tree[a].built

\* C25: in a tree built without a construction error, no two sub-agents of
\* one parent have the same name, whether they were attached by the
\* parent's subAgents or by their own parentAgent.
C25_SiblingNamesUnique ==
  noConstructionError =>
    \A parent \in builtAgents :
      \A i, j \in 1..Len(tree[parent].subAgents) :
        i # j => tree[tree[parent].subAgents[i]].name # tree[tree[parent].subAgents[j]].name

\* C26: no agent has both a parent and sub-agents, whether the links were
\* declared by subAgents or by parentAgent: a construction that would nest
\* sub-agents throws, so that a tree whose constructors all returned is a
\* root with its children.
C26_NoNestedSubAgents ==
  noConstructionError =>
    \A a \in builtAgents :
      ~(tree[a].parentAgent # Undefined /\ Len(tree[a].subAgents) > 0)

\* the cut-off message of a model call stopped by maxTokens is in the history
cutOffAppended ==
  \E i \in 1..Len(messages) : messages[i].content = CutOffResult.message.content

C28_PersistentBashSession ==
  [][(BashExecute /\ bash'.last.process # NoProcess) =>
       LET agent == bash'.last.agent
       IN  bash.ran[agent] # NoProcess =>
             /\ bash'.last.process = bash.ran[agent]
             /\ (bash'.last.command = "echo $X" /\ bash'.last.ended = "done") =>
                  bash'.last.output = bash.processes[bash.ran[agent]].X]_vars

\* the 0-based indices from c on at which the claim lets a history start:
\* the message holds no tool result and, if it holds a tool use, the next
\* message holds a tool result
validCuts(msgs, c) ==
  {i \in c..(Len(msgs) - 1) :
     /\ ~hasToolResult(msgs[i + 1])
     /\ hasToolUse(msgs[i + 1]) => (i + 2 <= Len(msgs) /\ hasToolResult(msgs[i + 2]))}

\* the candidate cut index of the claim
candidateCut(msgs, ws) == IF Len(msgs) > ws THEN Len(msgs) - ws ELSE 2

\* C29: a reduction that does not truncate cuts at the smallest valid index
\* from the candidate on (length - windowSize for a history longer than the
\* window, 2 otherwise): the history becomes its suffix from that index; if
\* there is no valid index below the length it raises
\* ContextWindowOverflowError and leaves the history alone.
C29_TrimAtFirstValidCut ==
  [][(reduceCalled /\ lastReduce'.how # "truncated") =>
       LET cuts == validCuts(messages, candidateCut(messages, windowSize))
       IN  IF cuts = {}
           THEN /\ lastReduce'.thrown = ReduceOverflow
                /\ messages' = messages
           ELSE /\ lastReduce'.thrown = None
                /\ lastReduce'.how = "trimmed"
                /\ \E i \in cuts :
                     /\ \A j \in cuts : i <= j
                     /\ messages' = SubSeq(messages, i + 1, Len(messages))]_vars

\* C29 witness: a history of four messages was trimmed with a window of
\* two: the message at the candidate index 2 holds a tool use that the last
\* message does not answer, so the cut moved to index 3 and the last message
\* alone is left
C29_Witness ==
  /\ lastReduce.how = "trimmed"
  /\ windowSize = 2
  /\ Len(lastReduce.input) = 4
  /\ hasToolUse(lastReduce.input[3])
  /\ ~hasToolResult(lastReduce.input[4])
  /\ messages = <<lastReduce.input[4]>>

\* the last two messages are the pair of a turn: the assistant message with
\* its tool uses, then the user message with one result per tool use, in
\* the order of the tool uses
pairCommitted(msgs) ==
  /\ Len(msgs) >= 2
  /\ msgs[Len(msgs) - 1].role = "assistant"
  /\ hasToolUse(msgs[Len(msgs) - 1])
  /\ msgs[Len(msgs)].role = "user"
  /\ [i \in 1..Len(msgs[Len(msgs)].content) |-> msgs[Len(msgs)].content[i].toolUseId]
       = toolUseIds(msgs[Len(msgs) - 1])

\* C30: a queued transfer takes effect at the turn boundary only.  While an
\* invocation runs the active agent changes in the switch between the two
\* transfer events and nowhere else, so the tools of the turn all run with
\* the agent that was active; BeforeTransferEvent is emitted at the turn
\* boundary, when the pair of the turn is committed with a result for every
\* tool use; AfterTransferEvent follows it, with the target active and the
\* history as it was; and the loop then goes to the next model call with
\* the target as the active agent, whose model, tools and system prompt the
\* call uses.
C30_TransferAtTurnBoundary ==
  /\ [](pc = "beforeTransferEvent" =>
          /\ nextAgent # Undefined
          /\ pairCommitted(messages)
          /\ messages[Len(messages)].author = activeAgent
          /\ messages[Len(messages) - 1].author = activeAgent)
  /\ [][/\ (pc # "idle" /\ pc' # "idle" /\ activeAgent' # activeAgent) => Transfer
        /\ (pc' = "beforeTransferEvent" /\ pc # "beforeTransferEvent") =>
             (TransferCheck /\ pendingTransferTarget # Undefined
                /\ activeAgent' = activeAgent /\ messages' = messages)
        /\ (pc' = "afterTransferEvent" /\ pc # "afterTransferEvent") => Transfer
        /\ Transfer =>
             \/ /\ pc' = "afterTransferEvent"
                /\ activeAgent' = nextAgent
                /\ messages' = messages
             \/ pc' = "idle" /\ outcome' = "HookError"
        /\ ContinueAfterTransfer =>
             \/ /\ pc' = "beforeModelCallEvent"
                /\ activeAgent' = activeAgent
                /\ activeAgent \in initialized'
                /\ messages' = messages
             \/ pc' = "afterInvocationEvent" /\ completion' = Throw("InitError")
             \/ pc' = "idle" /\ outcome' = "HookError"]_vars

\* C30 witness: the model of the root asked for a transfer to math and then
\* for the echo tool in one message; both tools ran, the pair was committed
\* in the name of the root, the two transfer events were emitted, and the
\* loop is at the next model call with math as the active agent
C30_Witness ==
  /\ pc = "beforeModelCallEvent"
  /\ calls = 1
  /\ modelCalls = 1
  /\ consecutiveTransfers = 1
  /\ activeAgent = "math"
  /\ pairCommitted(messages)
  /\ messages[Len(messages)].author = "root"
  /\ Len(messages[Len(messages)].content) = 2
  /\ messages[Len(messages)].content[1].toolUseId = "t1"
  /\ messages[Len(messages)].content[1].status = "success"
  /\ messages[Len(messages)].content[2] =
       ToolResultBlock("t2", "success", <<TextBlock("echo-ok")>>, Undefined)

\* C31: the BeforeModelCallEvent of a model call is dispatched before the
\* pending input messages are appended.  The first invokeModel of an
\* invocation is entered after BeforeInvocationEvent; when the event of its
\* model call is dispatched, from there or after the MessageAddedEvent of an
\* input message, no input message of the invocation is in the history yet.
C31_BeforeModelCallSeesNoInput ==
  [][(pc \in {"beforeInvocationEvent", "messageAddedEvent.input"}
        /\ pc' = "beforeModelCallEvent") =>
       (inputAppends' = 0 /\ messages' = messages)]_vars

\* C32: when the callbacks of AfterToolCallEvent ask for a retry, executeTool
\* goes back to the top of its loop for the same tool use: the result of the
\* retried attempt enters no list and BeforeToolCallEvent is dispatched
\* again for the same tool use (a throwing callback ends the call); the
\* result appended to the list of results is the one of the attempt whose
\* AfterToolCallEvent asked for no retry; and when the tools are done the
\* list holds one result per tool-use block, in their order.
C32_RetriedToolResultDropped ==
  /\ [](pc \in {"afterToolsEvent", "messageAddedEvent.assistant"} =>
          [i \in 1..Len(toolResultBlocks) |-> toolResultBlocks[i].toolUseId]
            = toolUseIds(modelResult.message))
  /\ [][/\ (pc = "afterToolCallEvent" /\ event.retry /\ AfterToolCall) =>
             \/ /\ pc' = "beforeToolCallEvent"
                /\ toolResultBlocks' = toolResultBlocks
                /\ toolLog' = Append(toolLog, <<"before", Len(toolResultBlocks) + 1>>)
             \/ pc' = "idle" /\ outcome' = "HookError"
        /\ (pc = "afterToolCallEvent" /\ ~event.retry /\ AfterToolCall) =>
             /\ pc' = "toolResultBlock"
             /\ toolResultBlocks' = Append(toolResultBlocks, toolResult)
        /\ (pc = "afterToolsEvent" /\ pc' = "messageAddedEvent.assistant") =>
             toolResultBlocks' = toolResultBlocks
        /\ (pc = "messageAddedEvent.assistant" /\ pc' = "messageAddedEvent.toolResult") =>
             /\ messages'[Len(messages')].content = toolResultBlocks
             /\ pairCommitted(messages')]_vars

\* C32 witness: the model asked for two tools in one message; one of the two
\* calls was retried once (three BeforeToolCallEvent and three
\* AfterToolCallEvent were dispatched for two tool uses), and the list of
\* results holds two results
C32_Witness ==
  /\ pc = "afterToolsEvent"
  /\ retries = 1
  /\ Len(toolUseBlocksOf(modelResult.message)) = 2
  /\ Len(toolLog) = 6
  /\ toolLog[1] = <<"before", 1>> /\ toolLog[2] = <<"after", 1>>
  /\ toolLog[3] = <<"before", 1>> /\ toolLog[4] = <<"after", 1>>
  /\ toolLog[5] = <<"before", 2>> /\ toolLog[6] = <<"after", 2>>
  /\ Len(toolResultBlocks) = 2

\* every message with a tool use is immediately followed by a message with
\* a tool result, and every message with a tool result is immediately
\* preceded by a message with a tool use
wellPaired(msgs) ==
  /\ \A i \in 1..Len(msgs) :
       hasToolUse(msgs[i]) => (i < Len(msgs) /\ hasToolResult(msgs[i + 1]))
  /\ \A i \in 1..Len(msgs) :
       hasToolResult(msgs[i]) => (i > 1 /\ hasToolUse(msgs[i - 1]))

\* C33: a reduction that succeeds, by truncation or by trimming, on a history
\* in which tool-use messages and tool-result messages are paired as
\* neighbours leaves a history in which they are paired as neighbours.
C33_PairingPreserved ==
  (lastReduce.how \in {"truncated", "trimmed"} /\ wellPaired(lastReduce.input)) =>
    wellPaired(messages)

\* C33 witness: a history of two tool pairs, the second already truncated,
\* was one message over the window; the candidate cut after the first
\* message split the first pair, and the trim moved on to the second pair,
\* which is what is left
C33_Witness ==
  /\ lastReduce.how = "trimmed"
  /\ windowSize = 3
  /\ Len(lastReduce.input) = 4
  /\ wellPaired(lastReduce.input)
  /\ hasToolResult(lastReduce.input[2])
  /\ messages = SubSeq(lastReduce.input, 3, 4)
  /\ hasToolUse(messages[1])
  /\ hasToolResult(messages[2])

\* C34: a reduction that raises ContextWindowOverflowError leaves the
\* history as it was given: no message is removed and no tool result is
\* truncated by the call that throws.
C34_OverflowLeavesHistory ==
  lastReduce.thrown # None =>
    /\ lastReduce.thrown = ReduceOverflow
    /\ lastReduce.how = "failed"
    /\ messages = lastReduce.input

\* C34 witness: with shouldTruncateResults, the reduction was given a
\* question, a tool use and its result, a placeholder already, so nothing
\* was left to truncate; it found no valid cut, threw, and the three
\* messages are there
C34_Witness ==
  /\ lastReduce.thrown = ReduceOverflow
  /\ shouldTruncateResults
  /\ Len(lastReduce.input) = 3
  /\ hasToolUse(lastReduce.input[2])
  /\ hasToolResult(lastReduce.input[3])
  /\ allPlaceholders(lastReduce.input[3])
  /\ messages = lastReduce.input

\* C35: a truncation changes nothing of the message it truncates but the
\* status and the content of its tool results: the role, the author tag, the
\* number and order of the blocks, the blocks that are no tool results and
\* the toolUseId of every tool result are what they were.
C35_TruncationKeepsTheRest ==
  lastReduce.how = "truncated" =>
    LET at == lastWithToolResult(lastReduce.input)
        before == lastReduce.input[at]
        after == messages[at]
    IN  /\ Len(messages) = Len(lastReduce.input)
        /\ after.role = before.role
        /\ after.author = before.author
        /\ Len(after.content) = Len(before.content)
        /\ \A k \in 1..Len(before.content) :
             IF before.content[k].type = "toolResultBlock"
             THEN /\ after.content[k].type = "toolResultBlock"
                  /\ after.content[k].toolUseId = before.content[k].toolUseId
             ELSE after.content[k] = before.content[k]

\* C36: the counter of consecutive transfers is between 0 and
\* MAX_CONSECUTIVE_TRANSFERS in every state; a target is pending only while
\* the counter is below the maximum, since queueTransfer refuses at the
\* maximum and the counter grows only after the pending target was taken;
\* so whenever the turn boundary takes a pending target the counter is below
\* the maximum, and the step is the one to BeforeTransferEvent (or the end of
\* the call when a callback throws).
C36_CounterWithinBound ==
  /\ [](consecutiveTransfers \in 0..MAX_CONSECUTIVE_TRANSFERS)
  /\ [](pendingTransferTarget # Undefined => consecutiveTransfers < MAX_CONSECUTIVE_TRANSFERS)
  /\ [][(TransferCheck /\ pendingTransferTarget # Undefined) =>
          /\ consecutiveTransfers < MAX_CONSECUTIVE_TRANSFERS
          /\ pendingTransferTarget' = Undefined
          /\ consecutiveTransfers' = consecutiveTransfers
          /\ \/ pc' = "beforeTransferEvent"
             \/ pc' = "idle" /\ outcome' = "HookError"]_vars

\* C36 witness: the eighth transfer of one invocation has just been made:
\* its target was taken at the turn boundary with the counter at 7, the
\* counter is at the maximum and nothing is pending
C36_Witness ==
  /\ pc = "afterTransferEvent"
  /\ calls = 1
  /\ modelCalls = MAX_CONSECUTIVE_TRANSFERS
  /\ consecutiveTransfers = MAX_CONSECUTIVE_TRANSFERS
  /\ pendingTransferTarget = Undefined

\* C37: a call rejected with ConcurrentInvocationError changes nothing.  The
\* step of a rejected call dispatches no event, appends no message, leaves
\* the pending transfer target, the counter and the active agent as they
\* were, and leaves the lock with the call in flight: after a rejected call
\* the lock is held as long as the first call is in flight, so that a
\* further call is rejected as well.
C37_RejectedCallChangesNothing ==
  /\ []((outcome = "ConcurrentInvocationError") => (isInvoking /\ pc # "idle"))
  /\ [][(StreamCalled /\ outcome' = "ConcurrentInvocationError") =>
          /\ isInvoking /\ isInvoking'
          /\ pc' = pc /\ event' = event
          /\ nBeforeInvocation' = nBeforeInvocation
          /\ messages' = messages
          /\ pendingTransferTarget' = pendingTransferTarget
          /\ consecutiveTransfers' = consecutiveTransfers
          /\ activeAgent' = activeAgent /\ activeAgentName' = activeAgentName
          /\ nextAgent' = nextAgent
          /\ calls' = calls]_vars

\* C37 witness: a call was rejected while the first call is in flight with a
\* transfer queued by its tool and not yet made; the lock is held, the
\* target is pending and the first call is where it was
C37_Witness ==
  /\ outcome = "ConcurrentInvocationError"
  /\ calls = 1
  /\ isInvoking
  /\ pc = "afterToolCallEvent"
  /\ pendingTransferTarget = "math"
  /\ activeAgent = "root"
  /\ Len(messages) = 1

=============================================================================
